---- MODULE Spec2Model ----
(***************************************************************************)
(* A model of the fluxject dependency-injection engine.                    *)
(*                                                                         *)
(* Two generations of the engine live in the repository:                   *)
(*   - the lazy engine: src/src/provider.js (host and scoped providers),   *)
(*     src/src/lazy-reference.js (the LazyReference proxy) and the         *)
(*     Container of src/src/polyfills.js:740-784;                          *)
(*   - the eager engine: the Container of src/src/container.js, which      *)
(*     instantiates singletons in prepare() and scoped services in         *)
(*     createScope() and resolves names in proxy traps.                    *)
(* Spec is the lazy engine, SpecEager the eager one.                       *)
(***************************************************************************)
EXTENDS Integers, Sequences, FiniteSets, TLC

\* Bound of the model: the number of scopes createScope() may create.
MaxScopes == 2

\* The same bound for the containers with more registrations.
MaxConfigScopes == 1

\* Bound of the model: the instantiator frames the call stack holds before
\* the engine throws RangeError (Maximum call stack size exceeded).
MaxStack == 3

\* Bounds of the model: the Container objects register() builds, and the
\* host providers prepare() builds from them.
MaxContainers == 3

MaxProviders == 2

\* Bounds of the model: the method wrappers of transient handles a program
\* holds at a time, and the times it calls one of them.
MaxWrappers == 2

MaxCalls == 2
\* Invocations of one teardown hook of one singleton, which a host whose
\* dispose() threw invokes again at every further dispose().
MaxRuns == 2

VARIABLES
    registrations,   \* Container.#registrations: the ordered registration store
    cells,           \* the LazyReference objects: <<owner, name>> -> fields
    hostReferences,  \* FluxjectHostServiceProvider.#references
    scopedServices,  \* FluxjectHostServiceProvider.#scopedServices
    scopes,          \* the FluxjectScopedServiceProvider objects, by creation
    pendingDispose,  \* promise continuations of asynchronous host.dispose()
    calls,           \* the factory invocations of the last step, in order
    hooks,           \* the teardown hooks the last step invoked, in order
    disposeCalled,   \* providers on which dispose() has been called
    wrappers,        \* the functions #handleTransient returned for methods
    strict,          \* Container.#config.strict (eager engine)
    hostServiceProvider,     \* the closure state of the eager host provider
    scopedServiceProviders,  \* the closure states of the eager scopes
    op,              \* the last operation run on an eager provider
    ret,             \* what that operation returned
    objects,         \* the registration objects on the heap, by address
    containers,      \* the Container objects, by creation
    providers        \* the host providers prepare() returned, by creation

lazyVars == <<cells, hostReferences, scopedServices, scopes, pendingDispose,
              disposeCalled, wrappers>>

eagerVars == <<strict, hostServiceProvider, scopedServiceProviders, op, ret>>

vars == <<registrations, cells, hostReferences, scopedServices, scopes,
          pendingDispose, calls, hooks, disposeCalled, wrappers, strict,
          hostServiceProvider, scopedServiceProviders, op, ret, objects,
          containers, providers>>

containerVars == <<objects, containers, providers>>

(***************************************************************************)
(* Registrations.  A registration is {lifetime, factory} under a name      *)
(* (builder.js); the factory is described by what it does: the teardown    *)
(* hooks its instances carry and the sibling services whose member it      *)
(* reads inside its constructor.                                           *)
(***************************************************************************)
RegsLazy ==
    << [name |-> "s1", lifetime |-> "singleton", sync |-> TRUE,
        async |-> TRUE, deps |-> << >>],
       [name |-> "c1", lifetime |-> "scoped", sync |-> TRUE,
        async |-> TRUE, deps |-> <<"s1">>],
       [name |-> "t1", lifetime |-> "transient", sync |-> TRUE,
        async |-> FALSE, deps |-> <<"s1">>] >>

\* Two singletons and two scoped services with teardown hooks.  s1 reads s2
\* inside its constructor, so s2's instance exists before s1's; names are
\* not array indices, so objects enumerate them in insertion order.
RegsOrdered ==
    << [name |-> "s1", lifetime |-> "singleton", sync |-> TRUE,
        async |-> FALSE, deps |-> <<"s2">>],
       [name |-> "c1", lifetime |-> "scoped", sync |-> TRUE,
        async |-> FALSE, deps |-> << >>],
       [name |-> "s2", lifetime |-> "singleton", sync |-> TRUE,
        async |-> TRUE, deps |-> << >>],
       [name |-> "c2", lifetime |-> "scoped", sync |-> TRUE,
        async |-> TRUE, deps |-> << >>] >>

\* Two singletons that each read a member of the other in their constructor.
RegsCircular ==
    << [name |-> "a", lifetime |-> "singleton", sync |-> FALSE,
        async |-> FALSE, deps |-> <<"b">>],
       [name |-> "b", lifetime |-> "singleton", sync |-> FALSE,
        async |-> FALSE, deps |-> <<"a">>] >>

\* The same pair where b keeps the handle of a it is given and reads no
\* member of it inside its constructor.
RegsDeferred ==
    << [name |-> "a", lifetime |-> "singleton", sync |-> FALSE,
        async |-> FALSE, deps |-> <<"b">>],
       [name |-> "b", lifetime |-> "singleton", sync |-> FALSE,
        async |-> FALSE, deps |-> << >>] >>

\* A singleton whose constructor throws, a singleton that reads a member
\* of it inside its own constructor, and a scoped service that does too.
RegsThrowing ==
    << [name |-> "a", lifetime |-> "singleton", sync |-> FALSE,
        async |-> FALSE, deps |-> << >>, throws |-> TRUE],
       [name |-> "b", lifetime |-> "singleton", sync |-> FALSE,
        async |-> FALSE, deps |-> <<"a">>],
       [name |-> "c", lifetime |-> "scoped", sync |-> FALSE,
        async |-> FALSE, deps |-> <<"a">>] >>

Range(f) == {f[i] : i \in DOMAIN f}

Names == {registrations[i].name : i \in DOMAIN registrations}

Reg(n) == CHOOSE r \in Range(registrations) : r.name = n

NamesOf(lifetimes) == {n \in Names : Reg(n).lifetime \in lifetimes}

\* The members a factory may probe on its view besides service names.
Management == {"createScope", "dispose"}

Host == 0

\* The owner tag of the references of a host provider that a second call of
\* container.prepare() builds.
Second == MaxScopes + 1

\* The owner tags that stand for a host provider.
Hosts == {Host, Second}

NoRef == <<-1, "none">>

CellKeys == ((0..MaxScopes) \X Names)

EmptyCell ==
    [made |-> 0, inst |-> 0, x |-> FALSE, syncDisposed |-> FALSE,
     asyncDisposed |-> FALSE, syncRuns |-> 0, asyncRuns |-> 0]

\* Values an operation hands back.
Result(kind, key, gen, x, wait) ==
    [kind |-> kind, key |-> key, gen |-> gen, x |-> x, wait |-> wait]

RUndefined == Result("undefined", NoRef, 0, FALSE, {})
RVoid == Result("void", NoRef, 0, FALSE, {})
RThrow == Result("throw", NoRef, 0, FALSE, {})
\* Errors that are instances of RangeError carry x = TRUE: the engine's
\* stack overflow, and CircularDependencyError with the name it was given.
RRangeError == Result("throw", NoRef, 0, TRUE, {})
RCircularDependencyError(k) == Result("throw", k, 0, TRUE, {})
RFunction(k) == Result("function", k, 0, FALSE, {})
RHandle(k) == Result("handle", k, 0, FALSE, {})
RValue(k, gen, x) == Result("value", k, gen, x, {})
RPromise(wait) == Result("promise", NoRef, 0, FALSE, wait)
\* The instance itself, where a member or a return value is `this`.
RInstance(k, gen) == Result("instance", k, gen, FALSE, {})

(***************************************************************************)
(* The mutable state an operation threads through the calls it makes.      *)
(***************************************************************************)
Heap ==
    [cells |-> cells, hostReferences |-> hostReferences,
     scopedServices |-> scopedServices, scopes |-> scopes,
     pendingDispose |-> pendingDispose, wrappers |-> wrappers,
     calls |-> << >>, hooks |-> << >>, res |-> RVoid, stack |-> 0]

\* The call in progress has thrown.
Threw(st) == st.res.kind = "throw"

\* The start of a statement: nothing has been returned or thrown yet.
Begin(st) == [st EXCEPT !.res = RVoid]

IsTransient(k) == Reg(k[2]).lifetime = "transient"

(***************************************************************************)
(* Providers and the views handed to factories (provider.js).              *)
(***************************************************************************)
\* FluxjectHostServiceProvider.constructor: one reference per singleton and
\* transient registration, none for scoped ones.
HostConstructor ==
    [n \in Names |->
        IF Reg(n).lifetime # "scoped" THEN <<Host, n>> ELSE NoRef]

\* A scope constructor that makes references of its own for singletons too.
ScopedConstructorOwnSingletons(references, s) ==
    [n \in Names |->
        IF Reg(n).lifetime \in {"scoped", "singleton"} THEN <<s, n>>
        ELSE references[n]]

\* A scope constructor that hands every scope the first scope's references.
ScopedConstructorShared(references, s) ==
    [n \in Names |->
        IF Reg(n).lifetime = "scoped" THEN <<1, n>> ELSE references[n]]

\* FluxjectScopedServiceProvider.constructor: the host's references spread
\* into the scope's own map, plus one new reference per scoped registration.
ScopedConstructor(references, s) ==
    [n \in Names |->
        IF Reg(n).lifetime = "scoped" THEN <<s, n>> ELSE references[n]]

\* provider[p]: the getters the constructors define, and the methods.
ProviderGet(st, owner, p) ==
    IF p \in Names
    THEN LET k == IF owner \in Hosts THEN st.hostReferences[p]
                  ELSE st.scopes[owner].references[p]
         IN IF k = NoRef THEN RUndefined ELSE RHandle(k)
    ELSE IF p = "dispose" \/ (p = "createScope" /\ owner \in Hosts)
         THEN RFunction(NoRef)
         ELSE RUndefined

\* p in provider: own accessor properties and prototype methods.
ProviderHas(owner, p) ==
    IF p \in Names
    THEN owner \notin Hosts \/ Reg(p).lifetime # "scoped"
    ELSE p = "dispose" \/ (p = "createScope" /\ owner \in Hosts)

\* injectable(provider, registrationName): the get trap.
InjectableGet(st, owner, n, p) ==
    IF p = n \/ p = "createScope" \/ p = "dispose"
    THEN RUndefined
    ELSE ProviderGet(st, owner, p)

\* injectable(provider, registrationName): the has trap.
InjectableHas(owner, n, p) ==
    IF p = n \/ p = "createScope" \/ p = "dispose"
    THEN FALSE
    ELSE ProviderHas(owner, p)

\* A name no registration carries.
Unregistered == "zz"

\* What a factory finds when it probes every member of its view.
ViewOf(st, owner, n) ==
    [name |-> n, owner |-> owner, threw |-> {},
     saw |-> {p \in Names \cup Management :
                 InjectableGet(st, owner, n, p).kind # "undefined"},
     has |-> {p \in Names \cup Management : InjectableHas(owner, n, p)}]

(***************************************************************************)
(* LazyReference (lazy-reference.js) and reference() (provider.js).        *)
(* An operator takes the heap it works on as a parameter and hands back    *)
(* the heap it leaves, with the value it returns in res.                   *)
(***************************************************************************)
RECURSIVE LazyGet(_, _, _)
RECURSIVE Instantiator(_, _)
RECURSIVE ReadDeps(_, _, _)
RECURSIVE ReadDepsOfAll(_, _, _)
RECURSIVE HandleTransient(_, _, _)

\* dependency.x inside a constructor, when the view yields the dependency.
ReadDep(st, h) ==
    IF h.kind = "handle" THEN LazyGet(st, h.key, "x") ELSE st

\* A constructor that reads member x of every sibling its view yields.
ReadDepsOfAll(st, k, i) ==
    IF i > Len(registrations) \/ Threw(st) THEN st
    ELSE ReadDepsOfAll(ReadDep(st, InjectableGet(st, k[1], k[2],
                                                 registrations[i].name)),
                       k, i + 1)

\* The constructor body: it reads member x of each sibling it de-references,
\* up to the first read that throws.
ReadDeps(st, k, i) ==
    IF i > Len(Reg(k[2]).deps) \/ Threw(st) THEN st
    ELSE ReadDeps(ReadDep(st, InjectableGet(st, k[1], k[2],
                                            Reg(k[2]).deps[i])),
                  k, i + 1)

\* A catch block that throws what it caught.
Rethrow(st, k) == st

\* reference(): the catch block of the instantiator.
Catch(st, k) ==
    IF Threw(st) /\ st.res.x
    THEN [st EXCEPT !.res = RCircularDependencyError(k)]
    ELSE st

\* The end of a constructor body that throws an error of its own once it
\* has read its dependencies.
Throwing(st, k) ==
    IF ~Threw(st) /\ "throws" \in DOMAIN Reg(k[2])
    THEN [st EXCEPT !.res = RThrow]
    ELSE st

\* new factory(scope) / factory(scope): one more frame on the call stack.
Call(st, k) ==
    [st EXCEPT !.calls = Append(@, ViewOf(st, k[1], k[2])),
               !.stack = @ + 1,
               !.res = RVoid]

Return(st) == [st EXCEPT !.stack = @ - 1]

\* reference(): the instantiator closure.  Its scope argument is the view of
\* the provider that created the reference; the factory probes that view.
Instantiator(st, k) ==
    IF st.stack >= MaxStack THEN Catch([st EXCEPT !.res = RRangeError], k)
    ELSE Catch(Return(Throwing(ReadDeps(Call(st, k), k, 1), k)), k)

\* The value instance[property] of a live instance.
Member(st, k, property) ==
    IF property = "x" THEN RValue(k, st.cells[k].inst, st.cells[k].x)
    ELSE IF property = "self" THEN RInstance(k, st.cells[k].inst)
    ELSE IF property = "Symbol.dispose"
         THEN IF Reg(k[2]).sync THEN RFunction(k) ELSE RUndefined
    ELSE IF property = "Symbol.asyncDispose"
         THEN IF Reg(k[2]).async THEN RFunction(k) ELSE RUndefined
    ELSE RUndefined

\* this.#instance = <the instance the factory made>.
StoreInstance(st, k) ==
    [st EXCEPT !.cells[k].made = @ + 1,
               !.cells[k].inst = st.cells[k].made + 1,
               !.cells[k].x = FALSE]

\* A get trap that calls the instantiator on every access.
MemoiseNever(st, k) == StoreInstance(Instantiator(st, k), k)

\* An assignment that takes place although the instantiator threw.
AssignPartlyBuilt(st, k) == StoreInstance(st, k)

\* this.#instance = instantiator(): no assignment when the call throws.
Assign(st, k) == IF Threw(st) THEN st ELSE StoreInstance(st, k)

\* if(this.#instance === undefined) this.#instance = instantiator();
Memoise(st, k) ==
    IF st.cells[k].inst = 0 THEN Assign(Instantiator(st, k), k)
    ELSE st

\* The get trap's bookkeeping of reads of the teardown-hook members.
MarkDisposed(st, k, property) ==
    [st EXCEPT !.cells[k].syncDisposed = @ \/ property = "Symbol.dispose",
               !.cells[k].asyncDisposed =
                   @ \/ property = "Symbol.asyncDispose"]

ReturnMember(st, k, property) ==
    IF Threw(st) THEN st ELSE [st EXCEPT !.res = Member(st, k, property)]

\* A get trap that instantiates before it looks at the member asked for.
LazyGetInstantiating(st, k, property) ==
    IF st.cells[k].syncDisposed /\ st.cells[k].asyncDisposed
    THEN [st EXCEPT !.res = RUndefined]
    ELSE IF IsTransient(k) THEN HandleTransient(st, k, property)
    ELSE ReturnMember(Memoise(MarkDisposed(st, k, property), k), k, property)

\* The get trap of the proxy a LazyReference returns.
LazyGet(st, k, property) ==
    IF st.cells[k].syncDisposed /\ st.cells[k].asyncDisposed
    THEN [st EXCEPT !.res = RUndefined]
    ELSE IF IsTransient(k) THEN HandleTransient(st, k, property)
    ELSE IF property \in {"Symbol.dispose", "Symbol.asyncDispose"}
            /\ st.cells[k].inst = 0
    THEN [MarkDisposed(st, k, property) EXCEPT !.res = RUndefined]
    ELSE ReturnMember(Memoise(MarkDisposed(st, k, property), k), k, property)

\* A transient reference that keeps its instance like any other reference.
HandleTransientStored(st, k, property) ==
    IF property = "bump"
    THEN [Memoise(st, k) EXCEPT !.cells[k].x = TRUE, !.res = RHandle(k)]
    ELSE ReturnMember(Memoise(st, k), k, property)

\* The hooks #handleTransient runs on the instance after the access.
TransientHooks(k) ==
    (IF Reg(k[2]).sync THEN <<[key |-> k, kind |-> "sync"]>> ELSE << >>)
    \o (IF Reg(k[2]).async THEN <<[key |-> k, kind |-> "async"]>>
        ELSE << >>)

\* A wrapper that hands back whatever the member or the method yielded.
InterceptNone(returnValue, k) == returnValue

\* if(returnValue === instance) return this.#proxy; return returnValue;
Intercept(returnValue, k) ==
    IF returnValue.kind = "instance" THEN RHandle(k) ELSE returnValue

\* #handleTransient after instantiator(): the instance is a local of the
\* call, fresh from the factory.  'bump' is a method that writes this.x and
\* returns this, read and called in one step; 'x' is a plain member and
\* 'self' a plain member whose value is the instance.
UseTransient(st, k, property) ==
    IF Threw(st) THEN st
    ELSE IF property = "bump"
    THEN [st EXCEPT !.hooks = @ \o TransientHooks(k), !.res = RHandle(k)]
    ELSE IF property = "self"
    THEN [st EXCEPT !.hooks = @ \o TransientHooks(k),
                    !.res = Intercept(RInstance(k, 0), k)]
    ELSE [st EXCEPT !.hooks = @ \o TransientHooks(k),
                    !.res = RValue(k, 0, st.cells[k].x)]

\* #handleTransient: the first three assignments.
ResetTransient(st, k) ==
    [st EXCEPT !.cells[k].syncDisposed = FALSE,
               !.cells[k].asyncDisposed = FALSE,
               !.cells[k].inst = 0,
               !.cells[k].x = FALSE]

\* #handleTransient.
HandleTransient(st, k, property) ==
    IF property \in {"Symbol.dispose", "Symbol.asyncDispose"}
    THEN [ResetTransient(st, k) EXCEPT !.res = RUndefined]
    ELSE UseTransient(Instantiator(ResetTransient(st, k), k), k, property)

\* The methods of the instances: bump writes this.x and returns this,
\* bumpAsync does so in an async function.
Methods == {"bump", "bumpAsync"}

\* The function #handleTransient returns for a method: it closes over the
\* instance made for the access.  calls counts its invocations, runs the
\* times it ran the teardown hooks of that instance, pending the promises of
\* the method that have not resolved.
WrapperOf(k, method) ==
    [key |-> k, method |-> method, calls |-> 0, runs |-> 0, pending |-> 0]

\* #handleTransient where instance[property] is a function.
TransientMethod(st, k, method) ==
    IF Threw(st) THEN st
    ELSE [st EXCEPT !.wrappers = Append(@, WrapperOf(k, method)),
                    !.res = RFunction(k)]

\* handle[method] on a transient handle, the function not called yet.
ReadMethodOf(st, k, method) ==
    TransientMethod(Instantiator(ResetTransient(Begin(st), k), k), k, method)

\* instance[Symbol.dispose]?.(); instance[Symbol.asyncDispose]?.() inside
\* the function.
DisposeInstance(st, i) ==
    [st EXCEPT !.wrappers[i].runs = @ + 1,
               !.hooks = @ \o TransientHooks(st.wrappers[i].key)]

\* The function runs: the method is invoked on the instance; a promise is
\* chained, anything else is followed by the hooks.
InvokeWrapper(st, i) ==
    IF st.wrappers[i].method = "bumpAsync"
    THEN [st EXCEPT !.wrappers[i].calls = @ + 1,
                    !.wrappers[i].pending = @ + 1,
                    !.res = RPromise({st.wrappers[i].key})]
    ELSE [DisposeInstance(st, i)
             EXCEPT !.wrappers[i].calls = @ + 1,
                    !.res = Intercept(RInstance(st.wrappers[i].key, 0),
                                      st.wrappers[i].key)]

\* returnValue.then(async (promiseReturnValue) => ...): the promise of the
\* method has resolved to the instance.
ResolveWrapper(st, i) ==
    [DisposeInstance(st, i)
        EXCEPT !.wrappers[i].pending = @ - 1,
               !.res = Intercept(RInstance(st.wrappers[i].key, 0),
                                 st.wrappers[i].key)]

\* this.#instance[property] = value.
WriteMember(st, k) ==
    IF Threw(st) THEN st
    ELSE [st EXCEPT !.cells[k].x = TRUE, !.res = RVoid]

\* The set trap: instantiate if needed, then write the member.
LazySet(st, k) ==
    IF IsTransient(k) THEN [st EXCEPT !.res = RThrow]
    ELSE WriteMember(Memoise(st, k), k)

\* property in instance, on a live instance: the read of the instance is
\* marked by the result's key.
HasMember(st, k) ==
    IF Threw(st) THEN st
    ELSE [st EXCEPT !.res = RValue(k, st.cells[k].inst, TRUE)]

\* The has trap: instantiate if needed, then test the member.
LazyHas(st, k, property) ==
    IF IsTransient(k) THEN [st EXCEPT !.res = RThrow]
    ELSE IF st.cells[k].inst = 0
            /\ property \in {"Symbol.dispose", "Symbol.asyncDispose"}
    THEN [st EXCEPT !.res = RThrow]
    ELSE HasMember(Memoise(st, k), k)

\* Object.getPrototypeOf(this.#instance).
PrototypeOf(st, k) ==
    IF Threw(st) THEN st
    ELSE [st EXCEPT !.res = RInstance(k, st.cells[k].inst)]

\* The getPrototypeOf trap, which instanceof runs: instantiate if needed.
LazyGetPrototypeOf(st, k) ==
    IF IsTransient(k) THEN [st EXCEPT !.res = RValue(NoRef, 0, FALSE)]
    ELSE PrototypeOf(Memoise(st, k), k)

(***************************************************************************)
(* Disposal (provider.js).                                                 *)
(***************************************************************************)
\* The teardown hook `kind` of the instances of service n fails: the
\* synchronous one throws, the asynchronous one returns a promise that
\* rejects.
Fails(n, kind) == "fails" \in DOMAIN Reg(n) /\ kind \in Reg(n).fails

\* Promise.all over the promises of the asynchronous hooks of `wait`
\* rejects.
Rejects(wait) == \E k \in wait : Fails(k[2], "async")

\* A hook call inside a try block whose catch block is empty.
CallSyncHookCaught(st, k) ==
    IF st.res.kind = "function"
    THEN [st EXCEPT !.cells[k].syncRuns = @ + 1,
                    !.hooks = Append(@, [key |-> k, kind |-> "sync"])]
    ELSE st

\* ...?.() on what service[Symbol.dispose] yielded.
CallSyncHook(st, k) ==
    IF st.res.kind = "function"
    THEN [st EXCEPT !.cells[k].syncRuns = @ + 1,
                    !.hooks = Append(@, [key |-> k, kind |-> "sync"]),
                    !.res = IF Fails(k[2], "sync") THEN RThrow ELSE @]
    ELSE st

\* ...?.() on what service[Symbol.asyncDispose] yielded; res holds the
\* promise the hook returned, if any.
CallAsyncHook(st, k) ==
    IF st.res.kind = "function"
    THEN [st EXCEPT !.cells[k].asyncRuns = @ + 1,
                    !.hooks = Append(@, [key |-> k, kind |-> "async"]),
                    !.res = RPromise({k})]
    ELSE [st EXCEPT !.res = RVoid]

\* service[Symbol.asyncDispose]?.(), the statement after the synchronous
\* hook's call: it does not run when that call threw.
AsyncDisposeAfter(st, k) ==
    IF Threw(st) THEN st
    ELSE CallAsyncHook(LazyGet(st, k, "Symbol.asyncDispose"), k)

\* service[Symbol.dispose]?.(); service[Symbol.asyncDispose]?.() on one
\* reference, as both dispose loops do.
DisposeReference(st, k) ==
    AsyncDisposeAfter(CallSyncHook(LazyGet(st, k, "Symbol.dispose"), k), k)

RECURSIVE ScopedDisposeLoopAnyLifetime(_, _, _, _)

ScopedDisposeNextAnyLifetime(st, s, i, promises) ==
    ScopedDisposeLoopAnyLifetime(
        [st EXCEPT !.scopes[s].references[registrations[i].name] = NoRef],
        s, i + 1, promises \cup st.res.wait)

\* A scope's dispose loop without the test of the registration's lifetime.
ScopedDisposeLoopAnyLifetime(st, s, i, promises) ==
    IF i > Len(registrations) THEN [st EXCEPT !.res = RPromise(promises)]
    ELSE IF st.scopes[s].references[registrations[i].name] = NoRef
    THEN ScopedDisposeLoopAnyLifetime(st, s, i + 1, promises)
    ELSE ScopedDisposeNextAnyLifetime(
            DisposeReference(st,
                st.scopes[s].references[registrations[i].name]),
            s, i, promises)

RECURSIVE ScopedDisposeLoop(_, _, _, _)

\* delete this.#references[key], and on to the next registration.
ScopedDisposeNext(st, s, i, promises) ==
    IF Threw(st) THEN st
    ELSE ScopedDisposeLoop(
            [st EXCEPT !.scopes[s].references[registrations[i].name] = NoRef],
            s, i + 1, promises \cup st.res.wait)

\* FluxjectScopedServiceProvider.dispose: the loop over this.#registrations.
ScopedDisposeLoop(st, s, i, promises) ==
    IF i > Len(registrations) THEN [st EXCEPT !.res = RPromise(promises)]
    ELSE IF registrations[i].lifetime # "scoped"
            \/ st.scopes[s].references[registrations[i].name] = NoRef
    THEN ScopedDisposeLoop(st, s, i + 1, promises)
    ELSE ScopedDisposeNext(
            DisposeReference(st,
                st.scopes[s].references[registrations[i].name]),
            s, i, promises)

\* FluxjectScopedServiceProvider.dispose after the loop.
ScopedDisposeEnd(st, s) ==
    IF Threw(st) THEN st
    ELSE [st EXCEPT !.scopes[s].references = [n \in Names |-> NoRef],
                    !.res = IF st.res.wait # {} THEN RPromise(st.res.wait)
                            ELSE RVoid]

\* FluxjectScopedServiceProvider.dispose.
ScopedDispose(st, s) == ScopedDisposeEnd(ScopedDisposeLoop(st, s, 1, {}), s)

IndexOf(seq, e) ==
    IF \E i \in DOMAIN seq : seq[i] = e
    THEN CHOOSE i \in DOMAIN seq :
            seq[i] = e /\ \A j \in DOMAIN seq : seq[j] = e => i <= j
    ELSE 0

Splice(seq, i) == SubSeq(seq, 1, i - 1) \o SubSeq(seq, i + 1, Len(seq))

\* createScope() without the wrapper: the scope's own dispose, which does not
\* touch the host's list.
ScopeDisposeUnwrapped(st, s) == ScopedDispose(st, s)

\* The dispose function createScope() installs on the scope it returns.
ScopeDisposeWrapper(st, s) ==
    IF IndexOf(st.scopedServices, s) = 0 THEN [st EXCEPT !.res = RVoid]
    ELSE ScopedDispose(
            [st EXCEPT !.scopedServices =
                           Splice(@, IndexOf(st.scopedServices, s))],
            s)

RECURSIVE DisposeScopesLoop(_, _, _)

DisposeScopesNext(st, i, promises) ==
    IF Threw(st) THEN st
    ELSE DisposeScopesLoop(st, i + 1, promises \cup st.res.wait)

\* disposeScopes: for(const scopedService of this.#scopedServices).  The
\* array iterator reads this.#scopedServices[i] and its length afresh at
\* every step, while scopedService.dispose() splices the same array.
DisposeScopesLoop(st, i, promises) ==
    IF i > Len(st.scopedServices) THEN [st EXCEPT !.res = RPromise(promises)]
    ELSE DisposeScopesNext(ScopeDisposeWrapper(st, st.scopedServices[i]),
                           i, promises)

RECURSIVE DisposeSingletonsLoopReversed(_, _, _)

DisposeSingletonsNextReversed(st, i, promises) ==
    DisposeSingletonsLoopReversed(
        [st EXCEPT !.hostReferences[
                       registrations[Len(registrations) + 1 - i].name] =
                           NoRef],
        i + 1, promises \cup st.res.wait)

\* A disposeSingletons that walks the references from the last key back.
DisposeSingletonsLoopReversed(st, i, promises) ==
    IF i > Len(registrations) THEN [st EXCEPT !.res = RPromise(promises)]
    ELSE IF st.hostReferences[
                registrations[Len(registrations) + 1 - i].name] = NoRef
    THEN DisposeSingletonsLoopReversed(st, i + 1, promises)
    ELSE DisposeSingletonsNextReversed(
            DisposeReference(st,
                st.hostReferences[
                    registrations[Len(registrations) + 1 - i].name]),
            i, promises)

RECURSIVE DisposeSingletonsLoop(_, _, _)

\* delete this.#references[key], and on to the next key.
DisposeSingletonsNext(st, i, promises) ==
    IF Threw(st) THEN st
    ELSE DisposeSingletonsLoop(
            [st EXCEPT !.hostReferences[registrations[i].name] = NoRef],
            i + 1, promises \cup st.res.wait)

\* disposeSingletons: for(const key in this.#references).
DisposeSingletonsLoop(st, i, promises) ==
    IF i > Len(registrations) THEN [st EXCEPT !.res = RPromise(promises)]
    ELSE IF st.hostReferences[registrations[i].name] = NoRef
    THEN DisposeSingletonsLoop(st, i + 1, promises)
    ELSE DisposeSingletonsNext(
            DisposeReference(st, st.hostReferences[registrations[i].name]),
            i, promises)

\* A disposeSingletons that never hands a promise back.
DisposeSingletonsEndVoid(st) ==
    [st EXCEPT !.hostReferences = [n \in Names |-> NoRef], !.res = RVoid]

\* disposeSingletons after the loop: with promises the map is reset when
\* they have all resolved, without promises at once.
DisposeSingletonsEnd(st) ==
    IF Threw(st) \/ st.res.wait # {} THEN st
    ELSE [st EXCEPT !.hostReferences = [n \in Names |-> NoRef],
                    !.res = RVoid]

DisposeSingletons(st) == DisposeSingletonsEnd(DisposeSingletonsLoop(st, 1, {}))

\* A pending entry is the rest of a promise chain: what runs next, at a
\* later turn of the event loop, once the promises of the teardown hooks it
\* waits for have resolved.  When they resolve is up to the hooks.  A chain
\* one of whose promises rejects, or one of whose callbacks throws, runs no
\* further callback: the handle dispose() returned is rejected.
Await(st, stage) ==
    IF st.res.wait # {}
    THEN [st EXCEPT !.pendingDispose =
                        Append(@, [stage |-> stage, wait |-> st.res.wait])]
    ELSE st

\* FluxjectHostServiceProvider.dispose once disposeScopes() has returned.
HostDisposeRest(st) ==
    IF Threw(st) THEN st
    ELSE IF st.res.wait # {} THEN Await(st, "clearScopes")
    ELSE Await(DisposeSingletons([st EXCEPT !.scopedServices = << >>]),
               "clearReferences")

\* A dispose() that tears the singletons down and then walks the scopes.
HostDisposeSingletonsFirst(st) ==
    DisposeScopesLoop(DisposeSingletons(st), 1, {})

\* FluxjectHostServiceProvider.dispose.
HostDispose(st) == HostDisposeRest(DisposeScopesLoop(st, 1, {}))

\* A createScope() that resolves the scoped service c1 of the new scope.
CreateScopeResolving(st) ==
    Memoise(
        [st EXCEPT !.scopes =
                       Append(@, [references |->
                                      ScopedConstructor(st.hostReferences,
                                                        Len(st.scopes) + 1)]),
                   !.scopedServices = Append(@, Len(st.scopes) + 1)],
        <<Len(st.scopes) + 1, "c1">>)

\* FluxjectHostServiceProvider.createScope.
CreateScopeOf(st) ==
    [st EXCEPT !.scopes =
                   Append(@, [references |->
                                  ScopedConstructor(st.hostReferences,
                                                    Len(st.scopes) + 1)]),
               !.scopedServices = Append(@, Len(st.scopes) + 1),
               !.res = RHandle(<<Len(st.scopes) + 1, "scope">>)]

\* The fields of a FluxjectHostServiceProvider object.
ThisOf(st) ==
    [hostReferences |-> st.hostReferences,
     scopedServices |-> st.scopedServices, scopes |-> st.scopes,
     pendingDispose |-> st.pendingDispose]

\* The heap seen from the provider whose fields are `this`.
With(st, this) ==
    [st EXCEPT !.hostReferences = this.hostReferences,
               !.scopedServices = this.scopedServices,
               !.scopes = this.scopes,
               !.pendingDispose = this.pendingDispose]

\* A prepare() that hands back the provider it built before.
PrepareCached(st) == st

\* container.prepare() on a container a provider was prepared from before:
\* new FluxjectHostServiceProvider(registrations) makes references of its
\* own and starts with no scope.
PrepareAgain(st) ==
    [st EXCEPT
        !.cells = [k \in DOMAIN st.cells \cup ({Second} \X Names) |->
                      IF k \in DOMAIN st.cells THEN st.cells[k]
                      ELSE EmptyCell],
        !.hostReferences =
            [n \in Names |->
                IF Reg(n).lifetime # "scoped" THEN <<Second, n>> ELSE NoRef],
        !.scopedServices = << >>,
        !.scopes = << >>,
        !.pendingDispose = << >>]

(***************************************************************************)
(* The lazy engine as a state machine.                                     *)
(***************************************************************************)
\* `let promise` of an eager dispose(): the hooks whose promise the chain
\* waits for, the services whose hook a later link of the chain invokes, the
\* hooks that run, and whether the promise handed back has resolved.
NoPromise ==
    [awaits |-> {}, rest |-> << >>, running |-> {}, handle |-> "none"]

\* The eager host provider before prepare().
NotPrepared ==
    [prepared |-> FALSE, disposed |-> FALSE, rSingletonServices |-> << >>,
     instantiatedSingletonServices |-> {}, promise |-> NoPromise,
     asyncInstantiationPromise |-> << >>]

\* The provider under study is built from `registrations`; no other
\* Container object is alive.
NoContainers ==
    /\ objects = << >>
    /\ containers = << >>
    /\ providers = << >>

Operation(name, provider, target) ==
    [name |-> name, provider |-> provider, target |-> target]

Init ==
    /\ registrations = RegsLazy
    /\ cells = [k \in CellKeys |-> EmptyCell]
    /\ hostReferences = HostConstructor
    /\ scopedServices = << >>
    /\ scopes = << >>
    /\ pendingDispose = << >>
    /\ calls = << >>
    /\ hooks = << >>
    /\ disposeCalled = {}
    /\ wrappers = << >>
    /\ strict = FALSE
    /\ hostServiceProvider = NotPrepared
    /\ scopedServiceProviders = << >>
    /\ op = Operation("none", Host, "")
    /\ ret = RVoid
    /\ NoContainers

\* The state a step leaves behind.
Commit(st) ==
    /\ cells' = st.cells
    /\ hostReferences' = st.hostReferences
    /\ scopedServices' = st.scopedServices
    /\ scopes' = st.scopes
    /\ pendingDispose' = st.pendingDispose
    /\ wrappers' = st.wrappers
    /\ calls' = st.calls
    /\ hooks' = st.hooks
    /\ UNCHANGED registrations
    /\ UNCHANGED eagerVars
    /\ UNCHANGED containerVars

Providers == {Host} \cup DOMAIN scopes

RemoveAt(seq, i) == Splice(seq, i)

\* handle.property on what provider[n] yielded.
Dereference(st, h, property) ==
    IF h.kind = "handle" THEN LazyGet(st, h.key, property)
    ELSE [st EXCEPT !.res = RUndefined]

\* provider[n].property.
Read(st, p, n, property) ==
    Dereference(Begin(st), ProviderGet(st, p, n), property)

\* provider[n].x = value.
Write(st, p, n) ==
    IF ProviderGet(st, p, n).kind = "handle"
    THEN LazySet(Begin(st), ProviderGet(st, p, n).key)
    ELSE [st EXCEPT !.res = RThrow]

\* provider[n].x, or provider[n].bump() on a transient.
Get(p, n, property) ==
    /\ p \in Providers /\ n \in Names
    /\ property = "bump" => Reg(n).lifetime = "transient"
    /\ Commit(Read(Heap, p, n, property))
    /\ UNCHANGED disposeCalled

\* provider[n].x = value.
Set(p, n) ==
    /\ p \in Providers /\ n \in Names
    /\ ProviderGet(Heap, p, n).kind = "handle"
    /\ Commit(Write(Heap, p, n))
    /\ UNCHANGED disposeCalled

\* The number of scopes the model lets a container's host create.
ScopeBound ==
    IF registrations = RegsLazy THEN MaxScopes ELSE MaxConfigScopes

CreateScope ==
    /\ Len(scopes) < ScopeBound
    /\ Commit(CreateScopeOf(Heap))
    /\ UNCHANGED disposeCalled

\* scope.dispose().
DisposeScope(s) ==
    /\ s \in DOMAIN scopes
    /\ Commit(ScopeDisposeWrapper(Heap, s))
    /\ disposeCalled' = disposeCalled \cup {s}

\* provider.dispose() on the host.
DisposeHost ==
    /\ \A n \in Names : cells[<<Host, n>>].syncRuns < MaxRuns
    /\ Commit(HostDispose(Heap))
    /\ disposeCalled' = disposeCalled \cup {Host}

\* The callback of disposeScopes' Promise.all(promises).then(...).
ClearScopes(st, i) ==
    [st EXCEPT !.scopedServices = << >>,
               !.pendingDispose[i] = [stage |-> "disposeSingletons",
                                      wait |-> {}]]

\* Promise.all(promises).then(() => { this.#scopedServices = []; })
ThenClearScopes(i) ==
    /\ i \in DOMAIN pendingDispose
    /\ pendingDispose[i].stage = "clearScopes"
    /\ ~Rejects(pendingDispose[i].wait)
    /\ Commit(ClearScopes(Heap, i))
    /\ UNCHANGED disposeCalled

\* The chain entry i once disposeSingletons() has returned.
Rejected == [stage |-> "rejected", wait |-> {}]

AfterSingletons(st, i) ==
    IF Threw(st) THEN [st EXCEPT !.pendingDispose[i] = Rejected]
    ELSE IF st.res.wait # {}
    THEN [st EXCEPT !.pendingDispose[i] = [stage |-> "clearReferences",
                                           wait |-> st.res.wait]]
    ELSE [st EXCEPT !.pendingDispose = RemoveAt(@, i)]

\* disposeScopesResult.then(disposeSingletons)
ThenDisposeSingletons(i) ==
    /\ i \in DOMAIN pendingDispose
    /\ pendingDispose[i].stage = "disposeSingletons"
    /\ Commit(AfterSingletons(DisposeSingletons(Heap), i))
    /\ UNCHANGED disposeCalled

\* Promise.all(promises).then(() => { this.#references = {}; })
ThenClearReferences(i) ==
    /\ i \in DOMAIN pendingDispose
    /\ pendingDispose[i].stage = "clearReferences"
    /\ ~Rejects(pendingDispose[i].wait)
    /\ Commit([Heap EXCEPT !.hostReferences = [n \in Names |-> NoRef],
                           !.pendingDispose = RemoveAt(@, i)])
    /\ UNCHANGED disposeCalled

\* Promise.all(promises) rejects: the callbacks chained on it do not run.
ThenReject(i) ==
    /\ i \in DOMAIN pendingDispose
    /\ pendingDispose[i].stage \in {"clearScopes", "clearReferences"}
    /\ Rejects(pendingDispose[i].wait)
    /\ Commit([Heap EXCEPT !.pendingDispose[i] = Rejected])
    /\ UNCHANGED disposeCalled

Next ==
    \/ \E p \in Providers, n \in Names, property \in {"x", "bump"} :
          Get(p, n, property)
    \/ \E p \in Providers, n \in Names : Set(p, n)
    \/ CreateScope
    \/ \E s \in DOMAIN scopes : DisposeScope(s)
    \/ DisposeHost
    \/ \E i \in DOMAIN pendingDispose : ThenClearScopes(i)
    \/ \E i \in DOMAIN pendingDispose : ThenDisposeSingletons(i)
    \/ \E i \in DOMAIN pendingDispose : ThenClearReferences(i)

Spec == Init /\ [][Next]_vars

\* The same engine over containers with other registrations.
InitConfigs ==
    /\ registrations \in {RegsOrdered, RegsCircular, RegsDeferred,
                          RegsThrowing}
    /\ cells = [k \in CellKeys |-> EmptyCell]
    /\ hostReferences = HostConstructor
    /\ scopedServices = << >>
    /\ scopes = << >>
    /\ pendingDispose = << >>
    /\ calls = << >>
    /\ hooks = << >>
    /\ disposeCalled = {}
    /\ wrappers = << >>
    /\ strict = FALSE
    /\ hostServiceProvider = NotPrepared
    /\ scopedServiceProviders = << >>
    /\ op = Operation("none", Host, "")
    /\ ret = RVoid
    /\ NoContainers

SpecConfigs == InitConfigs /\ [][Next]_vars

\* A singleton and two scoped services with both teardown hooks, where the
\* hook `kind` of service n fails.
RegsFailing(n, kind) ==
    << [name |-> "s1", lifetime |-> "singleton", sync |-> TRUE,
        async |-> TRUE, deps |-> << >>,
        fails |-> IF n = "s1" THEN {kind} ELSE {}],
       [name |-> "c1", lifetime |-> "scoped", sync |-> TRUE,
        async |-> TRUE, deps |-> << >>,
        fails |-> IF n = "c1" THEN {kind} ELSE {}],
       [name |-> "c2", lifetime |-> "scoped", sync |-> TRUE,
        async |-> TRUE, deps |-> << >>,
        fails |-> IF n = "c2" THEN {kind} ELSE {}] >>

InitFailing ==
    /\ registrations \in {RegsFailing(n, kind) :
                              n \in {"s1", "c1", "c2"},
                              kind \in {"sync", "async"}}
    /\ cells = [k \in CellKeys |-> EmptyCell]
    /\ hostReferences = HostConstructor
    /\ scopedServices = << >>
    /\ scopes = << >>
    /\ pendingDispose = << >>
    /\ calls = << >>
    /\ hooks = << >>
    /\ disposeCalled = {}
    /\ wrappers = << >>
    /\ strict = FALSE
    /\ hostServiceProvider = NotPrepared
    /\ scopedServiceProviders = << >>
    /\ op = Operation("none", Host, "")
    /\ ret = RVoid
    /\ NoContainers

NextFailing ==
    \/ \E p \in Providers, n \in Names : Get(p, n, "x")
    \/ CreateScope
    \/ \E s \in DOMAIN scopes : DisposeScope(s)
    \/ DisposeHost
    \/ \E i \in DOMAIN pendingDispose : ThenClearScopes(i)
    \/ \E i \in DOMAIN pendingDispose : ThenDisposeSingletons(i)
    \/ \E i \in DOMAIN pendingDispose : ThenClearReferences(i)
    \/ \E i \in DOMAIN pendingDispose : ThenReject(i)

SpecFailing == InitFailing /\ [][NextFailing]_vars

\* A container with a transient service whose instances carry both hooks.
RegsTransient ==
    << [name |-> "s1", lifetime |-> "singleton", sync |-> FALSE,
        async |-> FALSE, deps |-> << >>],
       [name |-> "t1", lifetime |-> "transient", sync |-> TRUE,
        async |-> TRUE, deps |-> <<"s1">>] >>

InitTransient ==
    /\ registrations = RegsTransient
    /\ cells = [k \in CellKeys |-> EmptyCell]
    /\ hostReferences = HostConstructor
    /\ scopedServices = << >>
    /\ scopes = << >>
    /\ pendingDispose = << >>
    /\ calls = << >>
    /\ hooks = << >>
    /\ disposeCalled = {}
    /\ wrappers = << >>
    /\ strict = FALSE
    /\ hostServiceProvider = NotPrepared
    /\ scopedServiceProviders = << >>
    /\ op = Operation("none", Host, "")
    /\ ret = RVoid
    /\ NoContainers

\* const f = provider[n][method]: the method is read, not called.
ReadMethod(p, n, method) ==
    /\ p \in Providers /\ n \in Names
    /\ Reg(n).lifetime = "transient"
    /\ ProviderGet(Heap, p, n).kind = "handle"
    /\ Len(wrappers) < MaxWrappers
    /\ Commit(ReadMethodOf(Heap, ProviderGet(Heap, p, n).key, method))
    /\ UNCHANGED disposeCalled

\* f(): a function read from a transient handle is called.
CallWrapper(i) ==
    /\ i \in DOMAIN wrappers
    /\ wrappers[i].calls < MaxCalls
    /\ Commit(InvokeWrapper(Heap, i))
    /\ UNCHANGED disposeCalled

\* A promise an async method returned resolves.
WrapperResolves(i) ==
    /\ i \in DOMAIN wrappers
    /\ wrappers[i].pending > 0
    /\ Commit(ResolveWrapper(Heap, i))
    /\ UNCHANGED disposeCalled

NextTransient ==
    \/ \E p \in Providers, n \in Names, property \in {"x", "self"} :
          Get(p, n, property)
    \/ \E p \in Providers, n \in Names, method \in Methods :
          ReadMethod(p, n, method)
    \/ \E i \in DOMAIN wrappers : CallWrapper(i)
    \/ \E i \in DOMAIN wrappers : WrapperResolves(i)
    \/ CreateScope

SpecTransient == InitTransient /\ [][NextTransient]_vars

(***************************************************************************)
(* The eager engine (container.js).  prepare() instantiates the singletons *)
(* and createScope() the scoped services; names are resolved by the get    *)
(* traps of the proxies #createHostServiceProvider and                     *)
(* #createScopedServiceProvider return.                                    *)
(***************************************************************************)
RegsEager ==
    << [name |-> "s1", lifetime |-> "singleton", sync |-> FALSE,
        async |-> TRUE, deps |-> << >>],
       [name |-> "s2", lifetime |-> "singleton", sync |-> FALSE,
        async |-> TRUE, deps |-> << >>],
       [name |-> "c1", lifetime |-> "scoped", sync |-> TRUE,
        async |-> TRUE, deps |-> << >>],
       [name |-> "t1", lifetime |-> "transient", sync |-> FALSE,
        async |-> FALSE, deps |-> << >>] >>

\* Registrations whose singleton factories are async functions: the first
\* one registered, the last one, or both.
Singleton(name, factory) ==
    [name |-> name, lifetime |-> "singleton", sync |-> FALSE,
     async |-> FALSE, deps |-> << >>, factory |-> factory]

RegsAsync(first, last) ==
    << Singleton("s1", first), Singleton("s2", last),
       [name |-> "t1", lifetime |-> "transient", sync |-> FALSE,
        async |-> FALSE, deps |-> << >>] >>

\* The factory of a registration is an async function: instantiate() returns
\* a promise.
AsyncFactory(r) == "factory" \in DOMAIN r /\ r.factory = "async"

Members == Names \cup Management \cup {Unregistered}

\* A value the user assigns through a provider.
NewValue == <<-2, "newValue">>

\* The stores rSingletonServices and rScopedServices: objects whose keys
\* keep their insertion order.
StoreHas(store, n) == \E i \in DOMAIN store : store[i].name = n

StoreGet(store, n) ==
    store[CHOOSE i \in DOMAIN store : store[i].name = n].service

StorePut(store, n, service) ==
    IF StoreHas(store, n)
    THEN [i \in DOMAIN store |->
             IF store[i].name = n THEN [name |-> n, service |-> service]
             ELSE store[i]]
    ELSE Append(store, [name |-> n, service |-> service])

EagerHeap ==
    [host |-> hostServiceProvider, scopes |-> scopedServiceProviders,
     strict |-> strict, calls |-> << >>, hooks |-> << >>, res |-> RVoid]

\* rSymbols[FluxjectSymbols.Disposed] of the provider a proxy closes over.
Disposed(st, owner) ==
    IF owner = Host THEN st.host.disposed ELSE st.scopes[owner].disposed

\* What a trap does where strict mode decides: throw, or yield undefined.
Violation(st) == IF st.strict THEN "throw" ELSE "undefined"

\* A host get trap without the branch for scoped registrations.
HostGetKindNoScoped(st, owner, currentRegistration, management, requested) ==
    IF Disposed(st, owner) THEN "throw"
    ELSE IF requested = currentRegistration THEN Violation(st)
    ELSE IF requested \in Management
         THEN IF management THEN "function" ELSE Violation(st)
    ELSE IF requested \notin Names THEN Violation(st)
    ELSE IF StoreHas(st.host.rSingletonServices, requested)
         THEN "stored"
    ELSE "instantiate"

\* The outcome of the get trap of a proxy of #createHostServiceProvider,
\* over the rSymbols of owner; management is includeProviderManagement and
\* requested is requestedServiceName.
HostGetKind(st, owner, currentRegistration, management, requested) ==
    IF Disposed(st, owner) THEN "throw"
    ELSE IF requested = currentRegistration THEN Violation(st)
    ELSE IF requested \in Management
         THEN IF management THEN "function" ELSE Violation(st)
    ELSE IF requested \notin Names THEN Violation(st)
    ELSE IF StoreHas(st.host.rSingletonServices, requested)
         THEN "stored"
    ELSE IF Reg(requested).lifetime = "scoped" THEN Violation(st)
    ELSE "instantiate"

\* The has trap of a proxy of #createHostServiceProvider.
HostHas(requested) ==
    \E r \in Range(registrations) :
        r.name = requested /\ r.lifetime # "scoped"

\* A scoped get trap without the test of the Disposed symbol.
ScopedGetKindNoDisposed(st, s, omittedRegistration, management, requested) ==
    IF requested = omittedRegistration THEN Violation(st)
    ELSE IF requested = "dispose"
         THEN IF management THEN "function" ELSE Violation(st)
    ELSE IF StoreHas(st.scopes[s].rScopedServices, requested)
         THEN "stored"
    ELSE IF StoreHas(st.host.rSingletonServices, requested)
         THEN "stored"
    ELSE IF requested \notin Names THEN Violation(st)
    ELSE "instantiate"

\* The outcome of the get trap of a proxy of #createScopedServiceProvider.
ScopedGetKind(st, s, omittedRegistration, management, requested) ==
    IF st.scopes[s].disposed THEN "throw"
    ELSE IF requested = omittedRegistration THEN Violation(st)
    ELSE IF requested = "dispose"
         THEN IF management THEN "function" ELSE Violation(st)
    ELSE IF StoreHas(st.scopes[s].rScopedServices, requested)
         THEN "stored"
    ELSE IF StoreHas(st.host.rSingletonServices, requested)
         THEN "stored"
    ELSE IF requested \notin Names THEN Violation(st)
    ELSE "instantiate"

\* The has trap of a proxy of #createScopedServiceProvider.
ScopedHas(requested) ==
    \E r \in Range(registrations) : r.name = requested

\* What a factory finds when it probes every member of the proxy it is
\* given: the members whose read throws, those that yield something, and
\* among these the members for which the get trap instantiates a service on
\* the spot.  A proxy of #createHostServiceProvider ...
HostViewOf(st, owner, n, management) ==
    [name |-> n, owner |-> owner,
     threw |-> {p \in Members :
                   HostGetKind(st, owner, n, management, p)
                       = "throw"},
     saw |-> {p \in Members :
                 HostGetKind(st, owner, n, management, p)
                     \in {"function", "stored", "instantiate"}},
     fresh |-> {p \in Members :
                   HostGetKind(st, owner, n, management, p)
                       = "instantiate"},
     has |-> {p \in Members : HostHas(p)}]

\* ... or a proxy of #createScopedServiceProvider.
ScopedViewOf(st, s, n, management) ==
    [name |-> n, owner |-> s,
     threw |-> {p \in Members :
                   ScopedGetKind(st, s, n, management, p)
                       = "throw"},
     saw |-> {p \in Members :
                 ScopedGetKind(st, s, n, management, p)
                     \in {"function", "stored", "instantiate"}},
     fresh |-> {p \in Members :
                   ScopedGetKind(st, s, n, management, p)
                       = "instantiate"},
     has |-> {p \in Members : ScopedHas(p)}]

\* registration.instantiate(view).
Instantiate(st, view) == [st EXCEPT !.calls = Append(@, view)]

\* registration.instantiate(maybePromise) in the singleton loop.
InstantiateSingleton(st, owner, n) ==
    Instantiate(st, HostViewOf(st, owner, n, FALSE))

\* registration.instantiate(maybePromise) in the scoped loop.
InstantiateScoped(st, s, n) ==
    Instantiate(st, ScopedViewOf(st, s, n, FALSE))

RECURSIVE SingletonLoop(_, _, _)

\* rSingletonServices[registration.name] = service, and on to the next key.
SingletonStore(st, owner, i) ==
    SingletonLoop(
        [st EXCEPT !.host.rSingletonServices =
                       StorePut(@, registrations[i].name,
                                <<Host, registrations[i].name>>)],
        owner, i + 1)

\* The promise an async factory returned, where a service is expected.
Unsettled(n) == <<-3, n>>

\* A loop that stores what instantiate() returned, promise or not.
SingletonStoreUnsettled(st, owner, i) ==
    SingletonLoop(
        [st EXCEPT !.host.rSingletonServices =
                       StorePut(@, registrations[i].name,
                                Unsettled(registrations[i].name))],
        owner, i + 1)

\* A link of asyncInstantiationPromise: a promise to wait for, or a callback
\* handed to then().
Link(step, n) == [step |-> step, name |-> n]

\* .then(hostServiceProvider => registration.instantiate(hostServiceProvider))
\* .then(service => ...).then(service => { rSingletonServices[name] = service })
ThenInstantiate(n, r) ==
    <<Link("instantiate", n)>>
       \o (IF AsyncFactory(r) THEN <<Link("settle", n)>> ELSE << >>)
       \o <<Link("store", n)>>

\* instantiate() returned a promise and there is no chain yet:
\* asyncInstantiationPromise = service, and the code falls through to the
\* chain that instantiates the registration once more.
SingletonAwait(st, owner, i) ==
    SingletonLoop(
        [st EXCEPT !.host.asyncInstantiationPromise =
                       <<Link("settle", registrations[i].name)>>
                          \o ThenInstantiate(registrations[i].name,
                                             registrations[i])],
        owner, i + 1)

\* The nested call returned a promise: the instantiation is chained to it.
SingletonChain(st, owner, i) ==
    SingletonLoop(
        [st EXCEPT !.host.asyncInstantiationPromise =
                       @ \o ThenInstantiate(registrations[i].name,
                                            registrations[i])],
        owner, i + 1)

\* A loop body that never tests whether instantiate() returned a promise.
SingletonServiceNoAwait(st, owner, i) ==
    IF AsyncFactory(registrations[i])
    THEN SingletonStoreUnsettled(st, owner, i)
    ELSE SingletonStore(st, owner, i)

\* const service = registration.instantiate(maybePromise), stored at once
\* unless it is a promise.
SingletonService(st, owner, i) ==
    IF AsyncFactory(registrations[i]) THEN SingletonAwait(st, owner, i)
    ELSE SingletonStore(st, owner, i)

\* The body of the loop once the nested call has returned maybePromise.
SingletonInstantiate(st, owner, i) ==
    IF st.host.asyncInstantiationPromise # << >>
    THEN SingletonChain(st, owner, i)
    ELSE SingletonService(
            InstantiateSingleton(st, owner, registrations[i].name),
            owner, i)

\* #createHostServiceProvider: the loop that initialises the singletons.
\* The proxy for a registration comes from a nested call of the function,
\* whose own loop runs first.
SingletonLoop(st, owner, i) ==
    IF i > Len(registrations) THEN st
    ELSE IF registrations[i].lifetime # "singleton"
            \/ registrations[i].name
                   \in st.host.instantiatedSingletonServices
    THEN SingletonLoop(st, owner, i + 1)
    ELSE SingletonInstantiate(
            SingletonLoop(
                [st EXCEPT !.host.instantiatedSingletonServices =
                               @ \cup {registrations[i].name}],
                owner, 1),
            owner, i)

RECURSIVE ScopedLoop(_, _, _, _)

\* rScopedServices[registration.name] = service, and on to the next key.
ScopedStore(st, s, omittedRegistration, i) ==
    ScopedLoop(
        [st EXCEPT !.scopes[s].rScopedServices =
                       StorePut(@, registrations[i].name,
                                <<s, registrations[i].name>>)],
        s, omittedRegistration, i + 1)

\* #createScopedServiceProvider: the loop that initialises scoped services.
ScopedLoop(st, s, omittedRegistration, i) ==
    IF i > Len(registrations) THEN st
    ELSE IF registrations[i].lifetime # "scoped"
            \/ registrations[i].name
                   \in st.scopes[s].instantiatedScopedServices
            \/ registrations[i].name = omittedRegistration
    THEN ScopedLoop(st, s, omittedRegistration, i + 1)
    ELSE ScopedStore(
            InstantiateScoped(
                ScopedLoop(
                    [st EXCEPT !.scopes[s].instantiatedScopedServices =
                                   @ \cup {registrations[i].name}],
                    s, registrations[i].name, 1),
                s, registrations[i].name),
            s, omittedRegistration, i)

\* currentRegistration and omittedRegistration of the proxy handed to users.
NoRegistration == ""

\* What a get trap hands back where it does not instantiate.
Outcome(st, kind, service) ==
    IF kind = "throw" THEN [st EXCEPT !.res = RThrow]
    ELSE IF kind = "undefined" THEN [st EXCEPT !.res = RUndefined]
    ELSE IF kind = "function" THEN [st EXCEPT !.res = RFunction(NoRef)]
    ELSE [st EXCEPT !.res = RValue(service, 0, FALSE)]

\* The get trap's last case of a proxy of #createHostServiceProvider: a
\* nested call builds the proxy for the registration, then the factory runs.
HostInstantiate(st, owner, n) ==
    [Instantiate(st, HostViewOf(st, owner, n, FALSE))
        EXCEPT !.res = RValue(<<owner, n>>, 0, FALSE)]

\* The get trap of a proxy of #createHostServiceProvider.
HostGet(st, owner, currentRegistration, management, requested) ==
    IF HostGetKind(st, owner, currentRegistration,
                   management, requested)
           = "instantiate"
    THEN HostInstantiate(SingletonLoop(st, owner, 1), owner,
                         requested)
    ELSE Outcome(st,
                 HostGetKind(st, owner, currentRegistration,
                             management,
                             requested),
                 IF StoreHas(st.host.rSingletonServices,
                             requested)
                 THEN StoreGet(st.host.rSingletonServices,
                               requested)
                 ELSE NoRef)

\* The get trap's last case of a proxy of #createScopedServiceProvider: the
\* proxy for the registration comes from #createHostServiceProvider, called
\* with the scope's rSymbols and without the sixth argument.
ScopedInstantiate(st, s, n) ==
    [Instantiate(st, HostViewOf(st, s, n, TRUE))
        EXCEPT !.res = RValue(<<s, n>>, 0, FALSE)]

\* The service a scope's stores hold under a name.
ScopedStored(st, s, n) ==
    IF StoreHas(st.scopes[s].rScopedServices, n)
    THEN StoreGet(st.scopes[s].rScopedServices, n)
    ELSE IF StoreHas(st.host.rSingletonServices, n)
    THEN StoreGet(st.host.rSingletonServices, n)
    ELSE NoRef

\* The get trap of a proxy of #createScopedServiceProvider.
ScopedGet(st, s, omittedRegistration, management, requested) ==
    IF ScopedGetKind(st, s, omittedRegistration,
                     management, requested)
           = "instantiate"
    THEN ScopedInstantiate(
            SingletonLoop(
                [st EXCEPT !.host.instantiatedSingletonServices =
                               @ \cup {requested}],
                s, 1),
            s, requested)
    ELSE Outcome(st,
                 ScopedGetKind(st, s, omittedRegistration,
                               management,
                               requested),
                 ScopedStored(st, s, requested))

\* The set trap of the host proxy: it stores nothing.
HostSet(st, requested) ==
    IF requested \notin Names /\ st.strict
    THEN [st EXCEPT !.res = RThrow]
    ELSE [st EXCEPT !.res = RVoid]

\* A set trap that stores nothing where strict mode is on.
ScopedSetLenientOnly(st, s, requested) ==
    IF requested \notin Names \/ st.strict
    THEN [st EXCEPT !.res = RVoid]
    ELSE IF Reg(requested).lifetime = "transient"
    THEN [st EXCEPT !.res = RVoid]
    ELSE IF Reg(requested).lifetime = "scoped"
    THEN [st EXCEPT !.scopes[s].rScopedServices =
                        StorePut(@, requested, NewValue),
                    !.res = RVoid]
    ELSE [st EXCEPT !.host.rSingletonServices =
                        StorePut(@, requested, NewValue),
                    !.res = RVoid]

\* The set trap of a scope's proxy.
ScopedSet(st, s, requested) ==
    IF requested \notin Names
    THEN [st EXCEPT !.res = RVoid]
    ELSE IF Reg(requested).lifetime = "transient"
    THEN [st EXCEPT !.res = RVoid]
    ELSE IF Reg(requested).lifetime = "scoped"
    THEN [st EXCEPT !.scopes[s].rScopedServices =
                        StorePut(@, requested, NewValue),
                    !.res = RVoid]
    ELSE [st EXCEPT !.host.rSingletonServices =
                        StorePut(@, requested, NewValue),
                    !.res = RVoid]

\* service[Symbol.dispose] and service[Symbol.asyncDispose] of a stored
\* service: what its factory attached, nothing on a value the user wrote.
HasHook(service, kind) ==
    /\ service # NewValue
    /\ IF kind = "sync" THEN Reg(service[2]).sync ELSE Reg(service[2]).async

RECURSIVE DisposeServices(_, _, _, _)

\* dispose() of either proxy: the loop over the services of a store.
DisposeServices(st, store, i, promise) ==
    IF i > Len(store)
    THEN [st EXCEPT !.res = IF promise = {} THEN RVoid ELSE RPromise(promise)]
    ELSE IF HasHook(store[i].service, "sync")
    THEN DisposeServices(
            [st EXCEPT !.hooks =
                Append(@, [key |-> store[i].service, kind |-> "sync"])],
            store, i + 1, promise)
    ELSE IF HasHook(store[i].service, "async")
    THEN DisposeServices(
            [st EXCEPT !.hooks =
                Append(@, [key |-> store[i].service,
                           kind |-> IF promise = {} THEN "async"
                                    ELSE "asyncThen"])],
            store, i + 1, promise \cup {store[i].service})
    ELSE DisposeServices(st, store, i + 1, promise)

\* The hooks a dispose() loop put on its promise chain, in loop order.
Chained(invoked) ==
    SelectSeq(invoked, LAMBDA h : h.kind \in {"async", "asyncThen"})

\* promise = service[Symbol.asyncDispose]() for the first asynchronous hook,
\* promise = promise.then(() => { service[Symbol.asyncDispose](); }) for
\* each later one.
PromiseOf(chain) ==
    IF chain = << >> THEN NoPromise
    ELSE [awaits |-> {chain[1].key},
          rest |-> [i \in 1..(Len(chain) - 1) |-> chain[i + 1].key],
          running |-> {chain[1].key},
          handle |-> "pending"]

PromiseAt(owner) ==
    IF owner = Host THEN hostServiceProvider.promise
    ELSE scopedServiceProviders[owner].promise

SetPromise(st, owner, promise) ==
    IF owner = Host THEN [st EXCEPT !.host.promise = promise]
    ELSE [st EXCEPT !.scopes[owner].promise = promise]

\* The promise dispose() hands back, as the loop left it.
KeepPromise(st, owner) == SetPromise(st, owner, PromiseOf(Chained(st.hooks)))

\* The promise of the running hook of service k resolves.
Resolved(promise, k) ==
    [promise EXCEPT !.running = @ \ {k},
                    !.awaits = @ \ {k},
                    !.handle = IF promise.awaits \ {k} = {}
                                  /\ promise.rest = << >>
                               THEN "resolved" ELSE @]

\* () => { service[Symbol.asyncDispose](); }: the link starts the hook and
\* returns undefined, so it resolves at once.
Started(promise) ==
    [promise EXCEPT !.running = @ \cup {Head(promise.rest)},
                    !.rest = Tail(@),
                    !.handle = IF Len(promise.rest) = 1
                               THEN "resolved" ELSE @]

\* createScope() of the host proxy.
CreateScopedServiceProvider(st) ==
    [ScopedLoop(
        [st EXCEPT !.scopes =
            Append(@, [disposed |-> FALSE, rScopedServices |-> << >>,
                       instantiatedScopedServices |-> {},
                       promise |-> NoPromise])],
        Len(st.scopes) + 1, NoRegistration, 1)
     EXCEPT !.res = RHandle(<<Len(st.scopes) + 1, "scope">>)]

(***************************************************************************)
(* The eager engine as a state machine.                                    *)
(***************************************************************************)
InitEager ==
    /\ registrations = RegsEager
    /\ strict \in BOOLEAN
    /\ hostServiceProvider = NotPrepared
    /\ scopedServiceProviders = << >>
    /\ op = Operation("create", Host, "")
    /\ ret = RVoid
    /\ calls = << >>
    /\ hooks = << >>
    /\ cells = [k \in CellKeys |-> EmptyCell]
    /\ hostReferences = [n \in Names |-> NoRef]
    /\ scopedServices = << >>
    /\ scopes = << >>
    /\ pendingDispose = << >>
    /\ disposeCalled = {}
    /\ wrappers = << >>
    /\ NoContainers

\* The state an operation on an eager provider leaves behind.
EagerCommit(st, o) ==
    /\ hostServiceProvider' = st.host
    /\ scopedServiceProviders' = st.scopes
    /\ calls' = st.calls
    /\ hooks' = st.hooks
    /\ op' = o
    /\ ret' = st.res
    /\ UNCHANGED <<registrations, strict>>
    /\ UNCHANGED lazyVars
    /\ UNCHANGED containerVars

\* The end of #createHostServiceProvider: the proxy, or the promise chained
\* with .then(() => hostServiceProvider).
PrepareReturn(st) ==
    IF st.host.asyncInstantiationPromise = << >>
    THEN [st EXCEPT !.host.prepared = TRUE, !.res = RHandle(<<Host, "host">>)]
    ELSE [st EXCEPT !.res = RPromise({<<Host, "host">>})]

\* container.prepare().
Prepare ==
    /\ ~hostServiceProvider.prepared
    /\ hostServiceProvider.asyncInstantiationPromise = << >>
    /\ EagerCommit(PrepareReturn(SingletonLoop(EagerHeap, Host, 1)),
                   Operation("prepare", Host, ""))

\* What a link of asyncInstantiationPromise does when it runs.
RunLink(st, link) ==
    IF link.step = "instantiate"
    THEN InstantiateSingleton(st, Host, link.name)
    ELSE IF link.step = "store"
    THEN [st EXCEPT !.host.rSingletonServices =
                        StorePut(@, link.name, <<Host, link.name>>)]
    ELSE st

\* The chain is at its end: the promise prepare() returned resolves to the
\* host provider.
Resolve(st) ==
    IF st.host.asyncInstantiationPromise = << >>
    THEN [st EXCEPT !.host.prepared = TRUE, !.res = RHandle(<<Host, "host">>)]
    ELSE st

\* The next link of asyncInstantiationPromise runs.
ThenInstantiation ==
    /\ hostServiceProvider.asyncInstantiationPromise # << >>
    /\ EagerCommit(
          Resolve([RunLink(EagerHeap,
                           Head(hostServiceProvider
                                   .asyncInstantiationPromise))
                      EXCEPT !.host.asyncInstantiationPromise = Tail(@)]),
          Operation("then", Host,
                    Head(hostServiceProvider.asyncInstantiationPromise).name))

\* host[requested].
HostProviderGet(requested) ==
    /\ hostServiceProvider.prepared
    /\ EagerCommit(HostGet(EagerHeap, Host, NoRegistration, TRUE,
                           requested),
                   Operation("get", Host, requested))

\* host[requested] = newValue.
HostProviderSet(requested) ==
    /\ hostServiceProvider.prepared
    /\ EagerCommit(HostSet(EagerHeap, requested),
                   Operation("set", Host, requested))

\* host.createScope(): the get trap yields the method, then it runs.
HostCreateScope(st) ==
    IF HostGetKind(st, Host, NoRegistration, TRUE, "createScope") = "throw"
    THEN [st EXCEPT !.res = RThrow]
    ELSE CreateScopedServiceProvider(st)

HostProviderCreateScope ==
    /\ hostServiceProvider.prepared
    /\ Len(scopedServiceProviders) < MaxScopes
    /\ EagerCommit(HostCreateScope(EagerHeap),
                   Operation("createScope", Host, ""))

\* host.dispose(): the get trap yields the method, then it runs.
HostDisposeOf(st) ==
    IF HostGetKind(st, Host, NoRegistration, TRUE, "dispose") = "throw"
    THEN [st EXCEPT !.res = RThrow]
    ELSE KeepPromise(
            DisposeServices([st EXCEPT !.host.disposed = TRUE],
                            st.host.rSingletonServices, 1, {}),
            Host)

HostProviderDispose ==
    /\ hostServiceProvider.prepared
    /\ EagerCommit(HostDisposeOf(EagerHeap),
                   Operation("dispose", Host, ""))

\* scope[requested].
ScopedProviderGet(s, requested) ==
    /\ s \in DOMAIN scopedServiceProviders
    /\ EagerCommit(ScopedGet(EagerHeap, s, NoRegistration, TRUE,
                             requested),
                   Operation("get", s, requested))

\* scope[requested] = newValue.
ScopedProviderSet(s, requested) ==
    /\ s \in DOMAIN scopedServiceProviders
    /\ EagerCommit(ScopedSet(EagerHeap, s, requested),
                   Operation("set", s, requested))

\* scope.dispose(): the get trap yields the method, then it runs.
ScopedDisposeOf(st, s) ==
    IF ScopedGetKind(st, s, NoRegistration, TRUE, "dispose") = "throw"
    THEN [st EXCEPT !.res = RThrow]
    ELSE KeepPromise(
            DisposeServices([st EXCEPT !.scopes[s].disposed = TRUE],
                            st.scopes[s].rScopedServices, 1, {}),
            s)

ScopedProviderDispose(s) ==
    /\ s \in DOMAIN scopedServiceProviders
    /\ EagerCommit(ScopedDisposeOf(EagerHeap, s),
                   Operation("dispose", s, ""))

\* The names the model assigns through a provider: a singleton, a scoped
\* and a transient one, and a name that is not registered.
Assigned == {"s1", "c1", "t1", Unregistered}

EagerProviders == {Host} \cup DOMAIN scopedServiceProviders

\* The promise an asynchronous teardown hook returned resolves.
AsyncDisposeResolves(owner, k) ==
    /\ owner \in EagerProviders
    /\ k \in PromiseAt(owner).running
    /\ EagerCommit(SetPromise(EagerHeap, owner,
                              Resolved(PromiseAt(owner), k)),
                   Operation("resolve", owner, k[2]))

\* promise.then(() => { service[Symbol.asyncDispose](); }): the next link
\* of the chain runs once the promise before it has resolved.
ThenAsyncDispose(owner) ==
    /\ owner \in EagerProviders
    /\ PromiseAt(owner).handle = "pending"
    /\ PromiseAt(owner).awaits = {}
    /\ PromiseAt(owner).rest # << >>
    /\ EagerCommit(
          [SetPromise(EagerHeap, owner, Started(PromiseAt(owner)))
              EXCEPT !.hooks = <<[key |-> Head(PromiseAt(owner).rest),
                                  kind |-> "async"]>>],
          Operation("then", owner, Head(PromiseAt(owner).rest)[2]))

NextEager ==
    \/ Prepare
    \/ \E n \in Names \cup {Unregistered} : HostProviderGet(n)
    \/ \E n \in Assigned : HostProviderSet(n)
    \/ HostProviderCreateScope
    \/ HostProviderDispose
    \/ \E s \in DOMAIN scopedServiceProviders,
          n \in Names \cup {Unregistered} : ScopedProviderGet(s, n)
    \/ \E s \in DOMAIN scopedServiceProviders, n \in Assigned :
          ScopedProviderSet(s, n)
    \/ \E s \in DOMAIN scopedServiceProviders : ScopedProviderDispose(s)
    \/ \E owner \in EagerProviders :
          \E k \in PromiseAt(owner).running : AsyncDisposeResolves(owner, k)
    \/ \E owner \in EagerProviders : ThenAsyncDispose(owner)

SpecEager == InitEager /\ [][NextEager]_vars

\* The eager engine over containers with async singleton factories.
InitAsync ==
    /\ \E first, last \in {"sync", "async"} :
          registrations = RegsAsync(first, last)
    /\ strict \in BOOLEAN
    /\ hostServiceProvider = NotPrepared
    /\ scopedServiceProviders = << >>
    /\ op = Operation("create", Host, "")
    /\ ret = RVoid
    /\ calls = << >>
    /\ hooks = << >>
    /\ cells = [k \in CellKeys |-> EmptyCell]
    /\ hostReferences = [n \in Names |-> NoRef]
    /\ scopedServices = << >>
    /\ scopes = << >>
    /\ pendingDispose = << >>
    /\ disposeCalled = {}
    /\ wrappers = << >>
    /\ NoContainers

NextAsync ==
    \/ Prepare
    \/ ThenInstantiation
    \/ \E n \in Names \cup {Unregistered} : HostProviderGet(n)
    \/ \E n \in Assigned : HostProviderSet(n)
    \/ HostProviderCreateScope

SpecAsync == InitAsync /\ [][NextAsync]_vars

(***************************************************************************)
(* Containers.  A Container holds a reference to a registration object; a  *)
(* registration object is an ordered map from names to registrations.      *)
(***************************************************************************)
Engines == {"lazy", "eager"}

\* A registration under its name; factories are told apart by an identity.
Entry(name, lifetime, factory) ==
    [name |-> name, lifetime |-> lifetime, factory |-> factory]

\* What the callback handed to register() returns: the object one call of
\* the builder made.
Callbacks ==
    { <<Entry("s1", "singleton", "F1")>>,
      <<Entry("c1", "scoped", "F2")>>,
      <<Entry("t1", "transient", "F3"), Entry("s1", "transient", "F4")>>,
      <<Entry("c1", "singleton", "F5"), Entry("s2", "singleton", "F6")>> }

Keys(object) == {object[i].name : i \in DOMAIN object}

IndexOfKey(object, key) == CHOOSE i \in DOMAIN object : object[i].name = key

\* An assignment that leaves a key the object already has as it is.
SetKeyIfAbsent(object, entry) ==
    IF entry.name \in Keys(object) THEN object ELSE Append(object, entry)

\* object[key] = value: a key the object has keeps its place.
SetKey(object, entry) ==
    IF entry.name \in Keys(object)
    THEN [object EXCEPT ![IndexOfKey(object, entry.name)] = entry]
    ELSE Append(object, entry)

RECURSIVE SpreadFrom(_, _, _)
SpreadFrom(object, source, i) ==
    IF i > Len(source) THEN object
    ELSE SpreadFrom(SetKey(object, source[i]), source, i + 1)

\* {...a, ...b}: a new object.
Spread(a, b) == SpreadFrom(SpreadFrom(<< >>, a, 1), b, 1)

ContainerHeap ==
    [objects |-> objects, containers |-> containers,
     providers |-> providers]

\* this.#registrations of container c.
RegistrationsOf(st, c) == st.objects[st.containers[c].registrations]

\* new Container(..., registrations) over the object at an address.
NewContainer(st, c, address) ==
    [engine |-> st.containers[c].engine, registrations |-> address]

\* A register() that assigns the new registrations into this.#registrations
\* and hands the same object to the container it returns.
RegisterInPlace(st, c, added) ==
    [st EXCEPT
        !.objects[st.containers[c].registrations] =
            Spread(RegistrationsOf(st, c), added),
        !.containers =
            Append(@, NewContainer(st, c, st.containers[c].registrations))]

\* container.register(callback), the callback returning `added`.
Register(st, c, added) ==
    [st EXCEPT
        !.objects = Append(@, Spread(RegistrationsOf(st, c), added)),
        !.containers = Append(@, NewContainer(st, c, Len(st.objects) + 1))]

\* The names the constructor of the lazy host provider makes a reference
\* and a getter for.
ReferenceEntries(object) ==
    {object[i].name : i \in {j \in DOMAIN object :
                                object[j].lifetime # "scoped"}}

\* container.prepare().  The lazy host provider keeps a copy of the
\* registrations and the references it made from them; the eager one closes
\* over a clone of the container, which holds the container's own object.
PrepareHost(st, c) ==
    IF st.containers[c].engine = "lazy"
    THEN [st EXCEPT
            !.objects = Append(@, Spread(<< >>, RegistrationsOf(st, c))),
            !.providers =
                Append(@, [container |-> c, engine |-> "lazy",
                           registrations |-> Len(st.objects) + 1,
                           references |->
                               ReferenceEntries(RegistrationsOf(st, c))])]
    ELSE [st EXCEPT
            !.providers =
                Append(@, [container |-> c, engine |-> "eager",
                           registrations |-> st.containers[c].registrations,
                           references |-> {}])]

\* The names provider p serves: `name in host`.
HostNames(st, p) ==
    IF st.providers[p].engine = "lazy" THEN st.providers[p].references
    ELSE ReferenceEntries(st.objects[st.providers[p].registrations])

\* The names a scope of provider p serves: `name in host.createScope()`.
ScopeNames(st, p) == Keys(st.objects[st.providers[p].registrations])

\* What provider p exposes.
ExposedBy(st, p) == [host |-> HostNames(st, p), scope |-> ScopeNames(st, p)]

ContainerCommit(st) ==
    /\ objects' = st.objects
    /\ containers' = st.containers
    /\ providers' = st.providers
    /\ UNCHANGED <<registrations, calls, hooks>>
    /\ UNCHANGED lazyVars
    /\ UNCHANGED eagerVars

\* Container.create() of either engine.
InitContainer ==
    /\ objects = << << >> >>
    /\ \E engine \in Engines :
          containers = <<[engine |-> engine, registrations |-> 1]>>
    /\ providers = << >>
    /\ registrations = << >>
    /\ cells = [k \in CellKeys |-> EmptyCell]
    /\ hostReferences = HostConstructor
    /\ scopedServices = << >>
    /\ scopes = << >>
    /\ pendingDispose = << >>
    /\ calls = << >>
    /\ hooks = << >>
    /\ disposeCalled = {}
    /\ wrappers = << >>
    /\ strict = FALSE
    /\ hostServiceProvider = NotPrepared
    /\ scopedServiceProviders = << >>
    /\ op = Operation("none", Host, "")
    /\ ret = RVoid

\* containers[c].register(callback).
ContainerRegister(c, added) ==
    /\ Len(containers) < MaxContainers
    /\ ContainerCommit(Register(ContainerHeap, c, added))

\* containers[c].prepare().
ContainerPrepare(c) ==
    /\ Len(providers) < MaxProviders
    /\ ContainerCommit(PrepareHost(ContainerHeap, c))

NextContainer ==
    \/ \E c \in DOMAIN containers, added \in Callbacks :
          ContainerRegister(c, added)
    \/ \E c \in DOMAIN containers : ContainerPrepare(c)

SpecContainer == InitContainer /\ [][NextContainer]_vars

(***************************************************************************)
(* Properties.                                                             *)
(***************************************************************************)
\* The factory invocations for name n among those of one operation.
CountCalls(invocations, n) ==
    Cardinality({i \in DOMAIN invocations : invocations[i].name = n})

\* The providers no dispose() call has touched.
Untouched(p) == Host \notin disposeCalled /\ p \notin disposeCalled

\* A read that yields a member of the one instance the cell k ever held.
YieldsInstance(r, k) ==
    /\ r.res.kind = "value"
    /\ r.res.key = k
    /\ r.res.gen = 1
    /\ r.cells[k].made = 1

\* C1: while the host is not disposed, every read of a singleton name, on
\* the host or on any scope, yields the same instance, and the singleton's
\* factory has been invoked at most once.  Every provider refers to the one
\* reference the host created; no scope has a reference of its own for it.
C1_SingletonShared ==
    \A n \in NamesOf({"singleton"}) :
        /\ cells[<<Host, n>>].made <= 1
        /\ \A s \in 1..MaxScopes : cells[<<s, n>>] = EmptyCell
        /\ \A p \in Providers :
              /\ ProviderGet(Heap, p, n)
                     \in {RUndefined, RHandle(<<Host, n>>)}
              /\ Read(Heap, p, n, "x").res.kind = "value"
                     => YieldsInstance(Read(Heap, p, n, "x"), <<Host, n>>)
              /\ Untouched(p)
                     => YieldsInstance(Read(Heap, p, n, "x"), <<Host, n>>)

\* A singleton resolved once and written, read through two scopes and the
\* host, nothing disposed.
C1_Witness ==
    /\ Len(scopes) = 2
    /\ disposeCalled = {}
    /\ cells[<<Host, "s1">>].made = 1
    /\ cells[<<Host, "s1">>].x
    /\ \A p \in Providers :
          Read(Heap, p, "s1", "x").res = RValue(<<Host, "s1">>, 1, TRUE)

\* A write through scope s that another scope s2 does not see.
Isolated(w, s, s2, n) ==
    /\ w.cells[<<s2, n>>] = cells[<<s2, n>>]
    /\ Read(w, s2, n, "x").res = Read(Heap, s2, n, "x").res

\* C2: within one scope every read of a scoped name yields the same
\* instance and its factory is invoked at most once for that scope; two
\* scopes of a host hold distinct instances of a scoped name, and a change
\* made through one scope is never visible through another.
C2_ScopedPerScope ==
    \A n \in NamesOf({"scoped"}) : \A s \in DOMAIN scopes :
        /\ cells[<<s, n>>].made <= 1
        /\ ProviderGet(Heap, s, n) \in {RUndefined, RHandle(<<s, n>>)}
        /\ Read(Heap, s, n, "x").res.kind = "value"
               => YieldsInstance(Read(Heap, s, n, "x"), <<s, n>>)
        /\ Untouched(s) => YieldsInstance(Read(Heap, s, n, "x"), <<s, n>>)
        /\ \A s2 \in DOMAIN scopes \ {s} :
              /\ ProviderGet(Heap, s, n).kind = "handle"
                     => ProviderGet(Heap, s2, n) # ProviderGet(Heap, s, n)
              /\ Isolated(Write(Heap, s, n), s, s2, n)

\* Two live scopes with a resolved instance each, one of them written.
C2_Witness ==
    /\ Len(scopes) = 2
    /\ disposeCalled = {}
    /\ cells[<<1, "c1">>].made = 1 /\ cells[<<1, "c1">>].x
    /\ cells[<<2, "c1">>].made = 1 /\ ~cells[<<2, "c1">>].x
    /\ Read(Heap, 1, "c1", "x").res = RValue(<<1, "c1">>, 1, TRUE)
    /\ Read(Heap, 2, "c1", "x").res = RValue(<<2, "c1">>, 1, FALSE)

\* A member read on a transient handle: one factory call, a new instance.
FreshRead(r, n) ==
    /\ r.res.kind = "value"
    /\ ~r.res.x
    /\ CountCalls(r.calls, n) = 1

\* A method call on a transient handle, then a member read on the handle the
\* call returned: one factory call each, and the write of the first is gone.
FreshAfterCall(b, n) ==
    /\ b.res.kind = "handle"
    /\ CountCalls(b.calls, n) = 1
    /\ \A k \in CellKeys : k[2] = n => b.cells[k] = EmptyCell
    /\ LazyGet(b, b.res.key, "x").res.kind = "value"
    /\ ~LazyGet(b, b.res.key, "x").res.x
    /\ CountCalls(LazyGet(b, b.res.key, "x").calls, n) = 2

HostReadScoped ==
    /\ op.name = "get"
    /\ op.provider = Host
    /\ op.target \in NamesOf({"scoped"})

C5_ViewHidesSelfAndManagement ==
    \A i \in DOMAIN calls :
        ~strict =>
            /\ {calls[i].name, "createScope", "dispose"}
                   \cap (calls[i].saw \cup calls[i].threw) = {}
            /\ {calls[i].name, "createScope", "dispose"}
                   \cap calls[i].has = {}

\* The views of one operation's factory invocations hide every scoped name
\* from singleton and transient factories.
HidesScoped(invocations) ==
    \A i \in DOMAIN invocations :
        Reg(invocations[i].name).lifetime # "scoped"
            => /\ invocations[i].saw \cap NamesOf({"scoped"}) = {}
               /\ invocations[i].has \cap NamesOf({"scoped"}) = {}

\* C6: a singleton or transient factory never obtains a scoped instance
\* through its view: every scoped name reads as undefined in it, also when
\* the singleton or transient is first resolved through a scope.
C6_ScopedHiddenFromView ==
    /\ HidesScoped(calls)
    /\ \A p \in Providers : \A n \in NamesOf({"singleton", "transient"}) :
          HidesScoped(Read(Heap, p, n, "x").calls)

\* The last step resolved a scoped service of scope 1 whose factory made the
\* singleton be resolved for the first time.
C6_Witness ==
    /\ Len(calls) = 2
    /\ calls[1].name = "c1" /\ calls[1].owner = 1
    /\ calls[2].name = "s1" /\ calls[2].owner = Host
    /\ "s1" \in calls[1].saw
    /\ "c1" \notin calls[2].saw

\* A step that invokes no hook and leaves the providers as they were.
NoOp ==
    /\ hooks' = << >>
    /\ UNCHANGED <<cells, hostReferences, scopedServices, scopes,
                   pendingDispose>>

\* C7: a second dispose() on the same host provider or on the same scope is
\* a no-op: it invokes no teardown hook and changes no state.  For the host
\* the step is a later call while its list of live scopes is empty, so that
\* no scope created since the first call is there to be disposed.
C7_SecondDisposeNoOp ==
    [][/\ DisposeHost /\ Host \in disposeCalled /\ scopedServices = << >>
             => NoOp
       /\ \A s \in DOMAIN scopes :
             DisposeScope(s) /\ s \in disposeCalled => NoOp]_vars

\* Scope s has been disposed: its scoped names yield nothing any more and
\* the hooks of the scoped instances it had resolved have been invoked.
ScopeDisposedNext(s) ==
    \A n \in NamesOf({"scoped"}) :
        /\ scopes'[s].references[n] = NoRef
        /\ cells[<<s, n>>].inst # 0 /\ Reg(n).sync
               => cells'[<<s, n>>].syncRuns = 1

\* C8: once host.dispose() has completed, every scope the host created and
\* that was not yet disposed has been disposed.  The step is a call of
\* host.dispose() that completes synchronously.
C8_HostDisposesEveryScope ==
    [][DisposeHost /\ pendingDispose' = pendingDispose
          => \A s \in Range(scopedServices) : ScopeDisposedNext(s)]_vars

\* C9: under any sequence of scope.dispose() and host.dispose() calls the
\* teardown hooks of a resolved scoped instance are invoked at most once in
\* total, and a scope that disposed itself is no longer in the host's list
\* of live scopes.
C9_ScopedHooksAtMostOnce ==
    /\ \A k \in CellKeys :
          Reg(k[2]).lifetime = "scoped"
              => cells[k].syncRuns <= 1 /\ cells[k].asyncRuns <= 1
    /\ \A s \in DOMAIN scopes :
          s \in disposeCalled => s \notin Range(scopedServices)

\* Scope 1 disposed itself with a resolved instance, whose hooks ran once;
\* the last step was a host.dispose() that invoked hooks of singletons only.
C9_Witness ==
    /\ disposeCalled = {Host, 1}
    /\ cells[<<1, "c1">>].syncRuns = 1
    /\ cells[<<1, "c1">>].asyncRuns = 1
    /\ hooks # << >>
    /\ \A i \in DOMAIN hooks : hooks[i].key[1] = Host

\* What scope.dispose() on scope s must leave alone.
OutsideUnchanged(s) ==
    /\ hostReferences' = hostReferences
    /\ \A k \in CellKeys : k[1] # s => cells'[k] = cells[k]
    /\ \A s2 \in DOMAIN scopes \ {s} : scopes'[s2] = scopes[s2]
    /\ \A i \in DOMAIN hooks' :
          hooks'[i].key[1] = s /\ Reg(hooks'[i].key[2]).lifetime = "scoped"

\* C10: scope.dispose() leaves everything outside the scope unchanged: it
\* invokes no singleton teardown hook, every singleton stays resolvable with
\* the same instance from the host and the other scopes, and the scoped
\* instances of the other scopes stay live.
C10_ScopeDisposeFrame ==
    [][\A s \in DOMAIN scopes : DisposeScope(s) => OutsideUnchanged(s)]_vars

\* Scope 1 has just been disposed with its instance torn down, while the
\* singleton and the instance of scope 2 are resolved and live.
C10_Witness ==
    /\ Len(scopes) = 2
    /\ disposeCalled = {1}
    /\ hooks = <<[key |-> <<1, "c1">>, kind |-> "sync"],
                 [key |-> <<1, "c1">>, kind |-> "async"]>>
    /\ Read(Heap, Host, "s1", "x").res.kind = "value"
    /\ Read(Heap, 2, "s1", "x").res.kind = "value"
    /\ cells[<<Host, "s1">>].syncRuns = 0
    /\ cells[<<2, "c1">>].made = 1
    /\ Read(Heap, 2, "c1", "x").res.kind = "value"
    /\ cells[<<2, "c1">>].syncRuns = 0

\* The position of a name in the registration store.
RegistrationIndex(n) ==
    CHOOSE i \in DOMAIN registrations : registrations[i].name = n

\* The hooks of one step come in registration order, provider by provider.
InRegistrationOrder(invoked) ==
    \A i, j \in DOMAIN invoked :
        (i < j /\ invoked[i].key[1] = invoked[j].key[1])
            => RegistrationIndex(invoked[i].key[2])
                   <= RegistrationIndex(invoked[j].key[2])

\* C11: dispose() on a host (for its singletons) and on a scope (for its
\* scoped services) invokes the teardown hooks of the resolved instances in
\* the order in which their names were registered.
C11_HooksInRegistrationOrder == InRegistrationOrder(hooks)

\* host.dispose() has just torn down a scope with both scoped services
\* resolved, and both singletons, s2 having been instantiated before s1.
C11_Witness ==
    /\ registrations = RegsOrdered
    /\ \E i, j \in DOMAIN hooks :
           /\ i < j
           /\ hooks[i].key = <<Host, "s1">>
           /\ hooks[j].key = <<Host, "s2">>
    /\ cells[<<1, "c1">>].syncRuns = 1
    /\ cells[<<1, "c2">>].asyncRuns = 1

\* The instance k has both teardown hooks.
HasBothHooks(k) == Reg(k[2]).sync /\ Reg(k[2]).async

\* Among the hooks of one step, the synchronous hook of k comes first and
\* its asynchronous hook follows.
SyncThenAsync(invoked, k) ==
    \E i, j \in DOMAIN invoked :
        /\ i < j
        /\ invoked[i] = [key |-> k, kind |-> "sync"]
        /\ invoked[j].key = k
        /\ invoked[j].kind \in {"async", "asyncThen"}

\* C12: for every resolved instance that has both a synchronous and an
\* asynchronous teardown hook, dispose() invokes both of them, the
\* synchronous one before the asynchronous one.
C12_SyncBeforeAsync ==
    \A i \in DOMAIN hooks :
        HasBothHooks(hooks[i].key) => SyncThenAsync(hooks, hooks[i].key)

\* A call handed back a promise exactly if it invoked an asynchronous hook.
DeferredIffAsync(st) ==
    (st.res.kind = "promise")
        <=> (\E i \in DOMAIN st.hooks : st.hooks[i].kind = "async")

\* C13: dispose() on a host or on a scope returns a deferred handle if and
\* only if at least one teardown hook invoked by that call (cascaded scopes
\* included) is asynchronous; otherwise, also when the only services with
\* asynchronous hooks were never resolved, it completes synchronously.
C13_DeferredIffAsyncHook ==
    /\ DeferredIffAsync(HostDispose(Heap))
    /\ \A s \in DOMAIN scopes : DeferredIffAsync(ScopeDisposeWrapper(Heap, s))

\* host.dispose() has just returned a promise because of the asynchronous
\* hook of a cascaded scope, and a host whose singleton with an asynchronous
\* hook was never resolved would complete synchronously.
C13_Witness ==
    /\ Host \in disposeCalled
    /\ Len(pendingDispose) = 1
    /\ pendingDispose[1].stage = "clearScopes"
    /\ \E i \in DOMAIN hooks :
           hooks[i].kind = "async" /\ hooks[i].key[1] # Host

\* C14: the deferred handle returned by dispose() completes only after
\* every asynchronous teardown hook started by that call, those of cascaded
\* scopes included, has completed.
C14_HandleAfterAllHooks ==
    \A owner \in EagerProviders :
        PromiseAt(owner).handle = "resolved"
            => PromiseAt(owner).running = {}

\* host[n] raises an error.
HostReadThrows(n) ==
    HostGet(EagerHeap, Host, NoRegistration, TRUE, n).res.kind = "throw"

\* scope[n] raises an error.
ScopedReadThrows(s, n) ==
    ScopedGet(EagerHeap, s, NoRegistration, TRUE, n).res.kind = "throw"

YieldsNoInstance(p) ==
    \A n \in Names : Read(Heap, p, n, "x").res.kind # "value"

\* C16: from the moment dispose() is called on a provider, and before any
\* asynchronous teardown hook settles, no read of a name through that
\* provider yields an instance that is being disposed or has been disposed;
\* this holds for singletons of a host whose scopes have asynchronous hooks.
C16_NoInstanceAfterDispose ==
    \A p \in disposeCalled \cap Providers : YieldsNoInstance(p)

\* The step de-references a member of a service: a member read or a member
\* assignment through the handle a provider yields.
Dereferences ==
    \/ \E p \in Providers, n \in Names, property \in {"x", "bump"} :
          Get(p, n, property)
    \/ \E p \in Providers, n \in Names : Set(p, n)

Resolvable(p, n) ==
    /\ ProviderGet(Heap, p, n).kind = "handle"
    /\ ~(cells[ProviderGet(Heap, p, n).key].syncDisposed
           /\ cells[ProviderGet(Heap, p, n).key].asyncDisposed)

\* provider[n].x raises CircularDependencyError carrying the name n.
RaisesCircular(p, n) ==
    Read(Heap, p, n, "x").res = RCircularDependencyError(<<Host, n>>)

\* C18: when two singletons A and B each read a member of the other inside
\* their own construction, the first access to either of them raises
\* CircularDependencyError to the caller, and the error names the service
\* whose resolution was started first.
C18_CircularDependencyNamesFirst ==
    registrations = RegsCircular
        => \A p \in Providers, n \in Names :
               Resolvable(p, n) => RaisesCircular(p, n)

\* b has just been accessed: its factory and the factory of a have been
\* invoked in turn until the stack was full, and neither has an instance.
C18_Witness ==
    /\ registrations = RegsCircular
    /\ Len(calls) = MaxStack
    /\ calls[1].name = "b"
    /\ calls[2].name = "a"
    /\ \A k \in CellKeys : cells[k].made = 0

\* provider[n].x yields the member of an instance.
ResolvesTo(p, n) == Read(Heap, p, n, "x").res.kind = "value"

\* C19: receiving or storing a handle to a sibling service during
\* construction never faults: if at least one service on a dependency cycle
\* defers reading the other's members until after its own construction,
\* every service on the cycle resolves successfully, whichever of them is
\* accessed first.
C19_DeferredCycleResolves ==
    registrations = RegsDeferred
        => \A p \in Providers, n \in Names :
               Resolvable(p, n) => ResolvesTo(p, n)

\* b, which holds the handle of a, was resolved first; the access to a that
\* has just run invoked the factory of a alone, which read b's member.
C19_Witness ==
    /\ registrations = RegsDeferred
    /\ cells[<<Host, "a">>].made = 1
    /\ cells[<<Host, "b">>].made = 1
    /\ Len(calls) = 1
    /\ calls[1].name = "a"
    /\ "b" \in calls[1].saw

\* What a provider exposes when its container holds exactly `object`: its
\* host the singleton and transient names, its scopes every name.
ExposureOf(object) ==
    [host |-> {object[i].name : i \in {j \in DOMAIN object :
                  object[j].lifetime \in {"singleton", "transient"}}},
     scope |-> {object[i].name : i \in DOMAIN object}]

\* What a provider prepared from container c at this moment exposes.
PreparedFrom(st, c) ==
    ExposedBy(PrepareHost(st, c), Len(st.providers) + 1)

\* The container a step added is a new object over a registration object no
\* earlier container holds.
ReturnsNewContainer ==
    /\ Len(containers') = Len(containers) + 1
    /\ \A c \in DOMAIN containers :
          containers'[Len(containers')].registrations #
              containers[c].registrations

\* Container c and every provider prepared from it are what they were.
RegisterFrame(c) ==
    /\ containers'[c] = containers[c]
    /\ RegistrationsOf(ContainerHeap, c)' = RegistrationsOf(ContainerHeap, c)
    /\ PreparedFrom(ContainerHeap, c)' =
          ExposureOf(RegistrationsOf(ContainerHeap, c))
    /\ \A p \in DOMAIN providers :
          providers[p].container = c =>
             /\ ExposedBy(ContainerHeap, p) =
                   ExposureOf(RegistrationsOf(ContainerHeap, c))
             /\ ExposedBy(ContainerHeap, p)' = ExposedBy(ContainerHeap, p)

\* C20: register() leaves the container it is called on as it was and
\* returns a new container; a provider prepared from the original container,
\* before the call or after it, exposes exactly the names that were
\* registered on the original before the call.
C20_RegisterIsPersistent ==
    [][containers' # containers =>
          /\ ReturnsNewContainer
          /\ \A c \in DOMAIN containers : RegisterFrame(c)]_vars

\* A container of the eager engine that has been registered on twice, with
\* two providers prepared from it, neither exposing the names added.
C20_Witness ==
    /\ Len(containers) = 3
    /\ containers[1].engine = "eager"
    /\ RegistrationsOf(ContainerHeap, 2) # << >>
    /\ Len(providers) = 2
    /\ \A p \in DOMAIN providers :
          /\ providers[p].container = 1
          /\ ExposedBy(ContainerHeap, p) = ExposureOf(<< >>)

\* object[name].
Lookup(object, name) == object[IndexOfKey(object, name)]

\* The object without the keys in names.
Without(object, names) == SelectSeq(object, LAMBDA e : e.name \notin names)

\* The store a container would hold had its names in `added` never been
\* registered before the call that registers `added`.
OnlyLatest(object, added) == Without(object, Keys(added)) \o added

\* The container register() returned last.
Returned(st) == Len(st.containers)

\* The registrations the provider prepared last works from.
PreparedStore(st) == st.objects[st.providers[Len(st.providers)].registrations]

\* The store after register(added) on a container holding `old`: one entry a
\* name, the one of `added` for its names and the old one for the others, and
\* a provider prepared from it exposes the names by their latest lifetime.
LatestWins(after, old, added) ==
    /\ \A i, j \in DOMAIN RegistrationsOf(after, Returned(after)) :
          RegistrationsOf(after, Returned(after))[i].name =
             RegistrationsOf(after, Returned(after))[j].name => i = j
    /\ Keys(RegistrationsOf(after, Returned(after))) =
          Keys(old) \cup Keys(added)
    /\ \A n \in Keys(added) :
          Lookup(RegistrationsOf(after, Returned(after)), n) =
             Lookup(added, n)
    /\ \A n \in Keys(old) \ Keys(added) :
          Lookup(RegistrationsOf(after, Returned(after)), n) = Lookup(old, n)
    /\ PreparedFrom(after, Returned(after)) =
          ExposureOf(OnlyLatest(old, added))

\* C21: after register() the store maps each name to exactly one (lifetime,
\* factory) pair, that of the latest call that registered the name, and a
\* provider prepared afterwards exposes each name by that pair alone; the
\* name keeps the place in the store's order its first registration gave it.
C21_LatestRegistrationWins ==
    \A c \in DOMAIN containers, added \in Callbacks :
        LatestWins(Register(ContainerHeap, c, added),
                   RegistrationsOf(ContainerHeap, c), added)

\* A container on which c1 was registered as a singleton, before s2, and
\* then as a scoped service.
C21_Witness ==
    \E c \in DOMAIN containers :
        /\ Len(RegistrationsOf(ContainerHeap, c)) = 2
        /\ RegistrationsOf(ContainerHeap, c)[1] = Entry("c1", "scoped", "F2")
        /\ RegistrationsOf(ContainerHeap, c)[2].name = "s2"

\* C21 as stated: an earlier registration of a name has no remaining effect,
\* so the provider prepared after register() works from the store it would
\* work from had the name been registered by the latest call only.
C21_AsStated ==
    \A c \in DOMAIN containers, added \in Callbacks :
        PreparedStore(PrepareHost(Register(ContainerHeap, c, added),
                                  Len(containers) + 1)) =
           OnlyLatest(RegistrationsOf(ContainerHeap, c), added)

\* The cells of the first provider, and of the second, are those of `before`.
FirstUntouched(st, before) ==
    \A k \in CellKeys : st.cells[k] = before.cells[k]

SecondUntouched(st, before) ==
    \A k \in {Second} \X Names : st.cells[k] = before.cells[k]

\* a is the heap after the first provider acted on b: the second provider's
\* instance of n is as it was, and live.
SecondKept(a, b, n) ==
    /\ SecondUntouched(a, b)
    /\ Read(With(a, ThisOf(b)), Host, n, "x").res = b.res

\* b2 is the heap after the second provider acted: the first provider's
\* references and instances are as they were, and its singleton n reads as it
\* did.
FirstKept(b2, n) ==
    /\ FirstUntouched(b2, Heap)
    /\ Read(With(b2, ThisOf(Heap)), Host, n, "x").res =
          Read(Heap, Host, n, "x").res

\* Whatever the first provider does next (a read, an assignment, a new
\* scope, a disposal) on the heap b.
FirstDoes(b, n) ==
    /\ \A p \in Providers, m \in Names :
          /\ SecondKept(Read(With(b, ThisOf(Heap)), p, m, "x"), b, n)
          /\ SecondKept(Write(With(b, ThisOf(Heap)), p, m), b, n)
    /\ SecondKept(CreateScopeOf(With(b, ThisOf(Heap))), b, n)
    /\ SecondKept(HostDispose(With(b, ThisOf(Heap))), b, n)

\* Whatever the second provider does next on the heap b.
SecondDoes(b, n) ==
    /\ \A m \in Names :
          /\ FirstKept(Read(b, Host, m, "x"), n)
          /\ FirstKept(Write(b, Host, m), n)
    /\ FirstKept(HostDispose(b), n)

\* b is the heap after the second provider resolved its singleton n: the
\* instance is not the first provider's, whatever the first provider does
\* next leaves it as it is and live, and whatever the second does next
\* leaves the first provider's instances as they are and live.
Separate(b, n) ==
    /\ b.res.kind = "value"
    /\ b.res.key # hostReferences[n]
    /\ FirstUntouched(b, Heap)
    /\ FirstDoes(b, n)
    /\ SecondDoes(b, n)

\* C22: a host provider obtained by another prepare() on the same container
\* shares no singleton instance with the first one; resolving, assigning or
\* disposing on either provider leaves the instances of the other unchanged
\* and live.
C22_PreparationsShareNothing ==
    \A n \in NamesOf({"singleton"}) :
        Separate(Read(PrepareAgain(Heap), Host, n, "x"), n)

\* The first provider holds a resolved singleton and a scope with a resolved
\* scoped service when the container is prepared again.
C22_Witness ==
    /\ cells[<<Host, "s1">>].inst # 0
    /\ \E s \in DOMAIN scopes : cells[<<s, "c1">>].inst # 0
    /\ Read(PrepareAgain(Heap), Host, "s1", "x").res.key = <<Second, "s1">>

\* Some singleton factory of the container is an async function.
AnyAsyncSingleton ==
    \E r \in Range(registrations) :
        r.lifetime = "singleton" /\ AsyncFactory(r)

\* Every singleton is in the store and reads as a settled value.
SingletonsSettled(st) ==
    \A n \in NamesOf({"singleton"}) :
        /\ StoreHas(st.host.rSingletonServices, n)
        /\ StoreGet(st.host.rSingletonServices, n) # Unsettled(n)
        /\ HostGet(st, Host, NoRegistration, TRUE, n).res.kind = "value"
        /\ HostGet(st, Host, NoRegistration, TRUE, n).res.key # Unsettled(n)

Strictly(st) == [st EXCEPT !.strict = TRUE]

Leniently(st) == [st EXCEPT !.strict = FALSE]

\* The members on which a view yields undefined.
Undefined(view) == Members \ (view.saw \cup view.threw)

\* A factory of the strict provider finds the view its lenient twin finds,
\* but that the members yielding undefined there throw here.
ViewsAgree(a, b) ==
    /\ a.name = b.name /\ a.owner = b.owner
    /\ a.has = b.has /\ a.saw = b.saw
    /\ a.threw = b.threw \cup Undefined(b)

\* a is what an operation leaves under strict mode and b what it leaves under
\* lenient mode: the same stores, hooks and factory calls, and the same
\* result unless the strict one threw where the lenient one yields undefined
\* or does nothing.
Agree(a, b) ==
    /\ a.host = b.host /\ a.scopes = b.scopes /\ a.hooks = b.hooks
    /\ Len(a.calls) = Len(b.calls)
    /\ \A i \in DOMAIN a.calls : ViewsAgree(a.calls[i], b.calls[i])
    /\ \/ a.res = b.res
       \/ a.res = RThrow /\ b.res \in {RUndefined, RVoid}

\* The reads and assignments where strict mode throws and lenient mode does
\* not: an unregistered name, or a scoped name on the host that no scope
\* has stored among the singletons.
Violating(a, b, owner, requested) ==
    a.res # b.res =>
       \/ requested \notin Names
       \/ owner = Host /\ Reg(requested).lifetime = "scoped"

AgreeOnHost(st) ==
    /\ \A n \in Members :
          /\ Agree(HostGet(Strictly(st), Host, NoRegistration, TRUE, n),
                   HostGet(Leniently(st), Host, NoRegistration, TRUE, n))
          /\ Violating(
                HostGet(Strictly(st), Host, NoRegistration, TRUE, n),
                HostGet(Leniently(st), Host, NoRegistration, TRUE, n),
                Host, n)
          /\ Agree(HostSet(Strictly(st), n), HostSet(Leniently(st), n))
          /\ Violating(HostSet(Strictly(st), n), HostSet(Leniently(st), n),
                       Host, n)
    /\ Len(st.scopes) < MaxScopes =>
          Agree(HostCreateScope(Strictly(st)),
                HostCreateScope(Leniently(st)))
    /\ Agree(HostDisposeOf(Strictly(st)), HostDisposeOf(Leniently(st)))

AgreeOnScope(st, s) ==
    /\ \A n \in Members :
          /\ Agree(ScopedGet(Strictly(st), s, NoRegistration, TRUE, n),
                   ScopedGet(Leniently(st), s, NoRegistration, TRUE, n))
          /\ Violating(
                ScopedGet(Strictly(st), s, NoRegistration, TRUE, n),
                ScopedGet(Leniently(st), s, NoRegistration, TRUE, n),
                s, n)
          /\ Agree(ScopedSet(Strictly(st), s, n),
                   ScopedSet(Leniently(st), s, n))
    /\ Agree(ScopedDisposeOf(Strictly(st), s),
             ScopedDisposeOf(Leniently(st), s))

SingletonAssigned(after, st, n) ==
    IF st.strict
    THEN /\ after.res = RThrow
         /\ after.host.rSingletonServices = st.host.rSingletonServices
    ELSE /\ StoreHas(after.host.rSingletonServices, n)
         /\ StoreGet(after.host.rSingletonServices, n) = NewValue

\* An assignment that changed no stored value.
NothingAssigned(after, st) ==
    after.host = st.host /\ after.scopes = st.scopes

\* C25: assigning to a singleton name on a provider overwrites the stored
\* singleton in lenient mode and throws in strict mode, leaving the value
\* unchanged; assigning to a transient or an unregistered name changes no
\* stored value.
C25_SingletonAssignment ==
    /\ hostServiceProvider.prepared /\ ~hostServiceProvider.disposed =>
          /\ \A n \in NamesOf({"singleton"}) :
                SingletonAssigned(HostSet(EagerHeap, n), EagerHeap, n)
          /\ \A n \in NamesOf({"transient"}) \cup {Unregistered} :
                NothingAssigned(HostSet(EagerHeap, n), EagerHeap)
    /\ \A s \in DOMAIN scopedServiceProviders :
          ~scopedServiceProviders[s].disposed =>
             /\ \A n \in NamesOf({"singleton"}) :
                   SingletonAssigned(ScopedSet(EagerHeap, s, n), EagerHeap, n)
             /\ \A n \in NamesOf({"transient"}) \cup {Unregistered} :
                   NothingAssigned(ScopedSet(EagerHeap, s, n), EagerHeap)

\* The transient handles the providers serve.
TransientHandles ==
    {ProviderGet(Heap, p, n).key :
        p \in Providers, n \in NamesOf({"transient"})} \ {NoRef}

\* The calls of wrapper w that have completed: returned, or their promise
\* resolved.
Completed(w) == w.calls - w.pending

\* C26: the instance an access to a transient handle creates has its hooks
\* invoked, the synchronous one first, exactly once and right after the
\* access completes: with the read of a plain member, and for a method once
\* the call has returned or the promise it returned has resolved.
C26_TransientTornDownOnce ==
    /\ \A k \in TransientHandles, property \in {"x", "self"} :
          LazyGet(Heap, k, property).hooks = TransientHooks(k)
    /\ \A i \in DOMAIN wrappers :
          wrappers[i].runs = IF Completed(wrappers[i]) > 0 THEN 1 ELSE 0

\* C27: no member read and no method call on a transient handle yields the
\* instance: where the member, the return value of the method, or the value
\* its promise resolves to is the instance, the handle is what comes back.
C27_TransientNeverLeaks ==
    /\ \A k \in TransientHandles :
          /\ LazyGet(Heap, k, "x").res.kind = "value"
          /\ LazyGet(Heap, k, "self").res = RHandle(k)
          /\ LazyGet(Heap, k, "bump").res = RHandle(k)
    /\ \A i \in DOMAIN wrappers :
          /\ InvokeWrapper(Heap, i).res.kind # "instance"
          /\ wrappers[i].method = "bump" =>
                InvokeWrapper(Heap, i).res = RHandle(wrappers[i].key)
          /\ wrappers[i].pending > 0 =>
                ResolveWrapper(Heap, i).res = RHandle(wrappers[i].key)

\* The program holds a method that returns the instance and an async method
\* whose promise resolves to it, both called, the promise pending.
C27_Witness ==
    \E i, j \in DOMAIN wrappers :
        /\ wrappers[i].method = "bump" /\ wrappers[i].calls = 1
        /\ wrappers[j].method = "bumpAsync" /\ wrappers[j].pending = 1

(***************************************************************************)
(* C28: a failure of a teardown hook during dispose() is never swallowed.  *)
(* Whenever a dispose() call on a scope or on the host, or a later link of *)
(* the chain an asynchronous host.dispose() left behind, invokes a hook    *)
(* that throws or whose promise rejects, the call throws, or the handle it *)
(* returned is rejected or waits for a promise that rejects.               *)
(***************************************************************************)
\* A hook that fails was invoked during the call.
HookFailed(st) ==
    \E j \in DOMAIN st.hooks :
        Fails(st.hooks[j].key[2], st.hooks[j].kind)

\* scope.dispose() threw, or the promise it returned rejects.
ScopeCallFails(st) ==
    \/ Threw(st)
    \/ st.res.kind = "promise" /\ Rejects(st.res.wait)

\* The handle whose chain is entry i is rejected, or will be.
HandleRejects(st, i) ==
    /\ i \in DOMAIN st.pendingDispose
    /\ \/ st.pendingDispose[i] = Rejected
       \/ Rejects(st.pendingDispose[i].wait)

\* host.dispose() threw, or the handle it returned rejects.
HostCallFails(st) ==
    \/ Threw(st)
    \/ /\ Len(st.pendingDispose) = Len(pendingDispose) + 1
       /\ HandleRejects(st, Len(st.pendingDispose))

SyncHookThrew ==
    \E j \in DOMAIN hooks :
        /\ hooks[j].kind = "sync" /\ Fails(hooks[j].key[2], "sync")
        /\ cells[hooks[j].key].asyncRuns = 0

\* The last step invoked an asynchronous hook whose promise rejects, and
\* the handle host.dispose() returned waits for it.
AsyncHookRejects ==
    /\ \E j \in DOMAIN hooks :
          hooks[j].kind = "async" /\ Fails(hooks[j].key[2], "async")
    /\ \E i \in DOMAIN pendingDispose : Rejects(pendingDispose[i].wait)

TornDown(st, k) == st.cells[k].syncRuns + st.cells[k].asyncRuns > 0

\* The links of a pending host.dispose() that run after its scopes'
\* promises have resolved.
HostDisposalRunsOn(st, i) ==
    AfterSingletons(DisposeSingletons(ClearScopes(st, i)), i)

\* The host disposals that still wait for the promises of their scopes.
AwaitingScopes ==
    {i \in DOMAIN pendingDispose : pendingDispose[i].stage = "clearScopes"}

\* createScope() now, and a read of the new scope's scoped service c1.
NewScopeInUse ==
    Read(CreateScopeOf(Heap), Len(scopes) + 1, "c1", "x")

C29_ScopeCreatedWhileDisposingIsKept ==
    \A i \in AwaitingScopes :
        Len(scopes) < ScopeBound =>
            \/ TornDown(HostDisposalRunsOn(NewScopeInUse, i),
                        <<Len(scopes) + 1, "c1">>)
            \/ TornDown(
                   ScopeDisposeWrapper(HostDisposalRunsOn(NewScopeInUse, i),
                                       Len(scopes) + 1),
                   <<Len(scopes) + 1, "c1">>)

(***************************************************************************)
(* C30: when a teardown hook throws during scope.dispose() or              *)
(* host.dispose(), a further dispose() call on the same provider tears     *)
(* down every resolved instance that was not torn down yet: after it, a    *)
(* hook of every instance the provider resolved has been invoked.          *)
(***************************************************************************)
\* The references that hold an instance.
InstancesOf(st) == {k \in DOMAIN st.cells : st.cells[k].made > 0}

\* A hook of every instance that provider p resolved has been invoked.
AllTornDown(st, p) ==
    \A k \in InstancesOf(st) : k[1] = p => TornDown(st, k)

\* scope.dispose() twice.
ScopeDisposedAgain(s) ==
    ScopeDisposeWrapper(ScopeDisposeWrapper(Heap, s), s)

\* host.dispose() twice.
HostDisposedAgain == HostDispose(HostDispose(Heap))

C30_DisposeAfterThrowFinishes ==
    /\ \A s \in DOMAIN scopes :
          Threw(ScopeDisposeWrapper(Heap, s)) =>
              AllTornDown(ScopeDisposedAgain(s), s)
    /\ Threw(HostDispose(Heap)) =>
          \A p \in Providers : AllTornDown(HostDisposedAgain, p)

(***************************************************************************)
(* C31: once a provider has been disposed, no operation on a handle to one *)
(* of its singleton or scoped services that was obtained before (member    *)
(* read, member assignment, `in` test, instanceof) invokes the service's   *)
(* factory or reads or writes the disposed instance.                       *)
(***************************************************************************)
\* The handles of singleton and scoped services whose provider's dispose()
\* has run over them and has finished.
DisposedHandles ==
    {k \in CellKeys :
        /\ ~IsTransient(k)
        /\ k[1] \in disposeCalled
        /\ pendingDispose = << >>
        /\ cells[k].syncDisposed /\ cells[k].asyncDisposed}

\* The operation left the reference alone: no factory ran, nothing was
\* written, and what it returned was not read from the instance.
Inert(st) ==
    /\ st.calls = << >>
    /\ st.cells = cells
    /\ st.res.kind \notin {"value", "instance"}

C31_DisposedHandleIsInert ==
    \A k \in DisposedHandles :
        /\ Inert(LazyGet(Heap, k, "x"))
        /\ Inert(LazySet(Heap, k))
        /\ Inert(LazyHas(Heap, k, "x"))
        /\ Inert(LazyGetPrototypeOf(Heap, k))

(***************************************************************************)
(* C32: while the factory of a singleton or scoped name N runs on a        *)
(* provider, a re-entrant resolution of N on that provider raises          *)
(* CircularDependencyError at once and does not invoke N's factory again:  *)
(* within one access, whose factory invocations are all nested in the      *)
(* first one while that access fails, N's factory is invoked at most once. *)
(***************************************************************************)
\* The factory invocations i < j of one access are of the same singleton or
\* scoped service of the same provider.
SameService(st, i, j) ==
    /\ i < j
    /\ st.calls[i].name = st.calls[j].name
    /\ st.calls[i].owner = st.calls[j].owner
    /\ Reg(st.calls[i].name).lifetime # "transient"

\* No factory was entered again while it was running.
NoReentry(st) ==
    \A i, j \in DOMAIN st.calls : ~SameService(st, i, j)

C32_NoReentrantFactory ==
    \A p \in Providers, n \in Names :
        /\ Resolvable(p, n)
        /\ Threw(Read(Heap, p, n, "x"))
        => NoReentry(Read(Heap, p, n, "x"))

(***************************************************************************)
(* C33: a name leaves the in-progress state when its factory completes, by *)
(* success or by failure.  After an access to N has failed, because a      *)
(* factory threw or because CircularDependencyError was raised, the cell   *)
(* of N is unresolved again; a later access to N invokes N's factory anew, *)
(* fails or succeeds as the first one did without a cycle being reported   *)
(* on account of the failed attempt, and yields no partly built instance.  *)
(***************************************************************************)
\* The reference provider p yields for n.
KeyOf(p, n) == ProviderGet(Heap, p, n).key

\* provider[n].x once more, after the access that has just failed.
ReadAgain(p, n) == Read(Read(Heap, p, n, "x"), p, n, "x")

\* The factory invocations of the second access alone.
CallsOfSecond(p, n) ==
    SubSeq(ReadAgain(p, n).calls, Len(Read(Heap, p, n, "x").calls) + 1,
           Len(ReadAgain(p, n).calls))

FailureLeavesUnresolved(p, n) ==
    /\ Read(Heap, p, n, "x").cells[KeyOf(p, n)].inst = 0
    /\ Read(Heap, p, n, "x").cells[KeyOf(p, n)].made = 0
    /\ CallsOfSecond(p, n) # << >>
    /\ CallsOfSecond(p, n)[1].name = n
    /\ CallsOfSecond(p, n) = Read(Heap, p, n, "x").calls
    /\ ReadAgain(p, n).res = Read(Heap, p, n, "x").res

C33_FailedResolutionIsRetried ==
    \A p \in Providers, n \in Names :
        /\ Resolvable(p, n)
        /\ Threw(Read(Heap, p, n, "x"))
        => FailureLeavesUnresolved(p, n)

\* An access to b has just failed because the constructor of a threw, or
\* because a and b read each other: b's factory ran and b has no instance.
C33_Witness ==
    /\ registrations \in {RegsThrowing, RegsCircular}
    /\ calls # << >>
    /\ calls[1].name = "b"
    /\ cells[<<Host, "b">>].made = 0
    /\ Threw(Read(Heap, Host, "b", "x"))

(***************************************************************************)
(* C34, as the code has it: host.dispose() disposes its live scopes first  *)
(* and invokes the teardown hooks of the resolved singletons afterwards.   *)
(* No hook of a scoped instance is invoked after a hook of a singleton in  *)
(* one dispose(), and while the promises of the scopes' hooks are awaited  *)
(* no hook of a singleton has been invoked yet by that dispose().          *)
(***************************************************************************)
HookOf(invoked, i, lifetime) == Reg(invoked[i].key[2]).lifetime = lifetime

\* In `invoked`, no hook of lifetime `later` comes before one of `earlier`.
InOrder(invoked, earlier, later) ==
    \A i, j \in DOMAIN invoked :
        i < j => ~(HookOf(invoked, i, later) /\ HookOf(invoked, j, earlier))

\* host.dispose() now would wait for the promises of its scopes' hooks.
AwaitsScopes(st) ==
    /\ Len(st.pendingDispose) = Len(pendingDispose) + 1
    /\ st.pendingDispose[Len(st.pendingDispose)].stage = "clearScopes"

NoHookOf(invoked, lifetime) ==
    \A i \in DOMAIN invoked : ~HookOf(invoked, i, lifetime)

C34_ScopesBeforeSingletons ==
    /\ InOrder(hooks, "scoped", "singleton")
    /\ InOrder(HostDispose(Heap).hooks, "scoped", "singleton")
    /\ AwaitsScopes(HostDispose(Heap))
           => NoHookOf(HostDispose(Heap).hooks, "singleton")

\* host.dispose() has just invoked a hook of a scoped instance and then a
\* hook of a singleton.
C34_Witness ==
    \E i, j \in DOMAIN hooks :
        /\ i < j
        /\ HookOf(hooks, i, "scoped")
        /\ HookOf(hooks, j, "singleton")

\* C34 as stated: host.dispose() invokes the teardown hooks of every
\* resolved singleton before it disposes any live scope.
C34_AsStated ==
    /\ InOrder(hooks, "singleton", "scoped")
    /\ InOrder(HostDispose(Heap).hooks, "singleton", "scoped")

(***************************************************************************)
(* C35: a singleton or scoped service stops yielding its instance only     *)
(* through dispose() of its provider: reading the teardown-hook members on *)
(* a handle, without calling dispose(), does not change what a later read  *)
(* of the service returns.                                                 *)
(***************************************************************************)
\* provider[n][Symbol.dispose]; provider[n][Symbol.asyncDispose]: the two
\* members are read and not called.
HooksRead(p, n) ==
    Read(Read(Heap, p, n, "Symbol.dispose"), p, n, "Symbol.asyncDispose")

C35_ReadingHooksChangesNothing ==
    \A p \in Providers, n \in Names :
        /\ Resolvable(p, n)
        /\ Reg(n).lifetime # "transient"
        => /\ Read(Read(Heap, p, n, "Symbol.dispose"), p, n, "x").res
                  = Read(Heap, p, n, "x").res
           /\ Read(HooksRead(p, n), p, n, "x").res
                  = Read(Heap, p, n, "x").res

(***************************************************************************)
(* C36: in the eager container, what a singleton factory reads under       *)
(* another singleton's name during prepare() is the instance the provider  *)
(* exposes under that name afterwards: for no singleton name does the      *)
(* proxy a singleton factory is given instantiate a service on the spot,   *)
(* whatever the registration order of the two.                             *)
(***************************************************************************)
C36_SingletonsSeeStoredSingletons ==
    \A i \in DOMAIN calls :
        Reg(calls[i].name).lifetime = "singleton"
            => calls[i].fresh \cap NamesOf({"singleton"}) = {}

(***************************************************************************)
(* C37: during prepare() of the eager container each singleton factory is  *)
(* invoked exactly once, also when the factory is asynchronous and is the  *)
(* first asynchronous one of the batch: the invocations prepare() makes at *)
(* once and those it chains on the promise it returns add up to one for    *)
(* every singleton.                                                        *)
(***************************************************************************)
\* container.prepare() on the heap as it is.
Prepared == PrepareReturn(SingletonLoop(EagerHeap, Host, 1))

\* The invocations of n's factory made while prepare() runs ...
InvokedAtOnce(st, n) ==
    Cardinality({i \in DOMAIN st.calls : st.calls[i].name = n})

\* ... and those its promise chain makes later.
InvokedLater(st, n) ==
    Cardinality({i \in DOMAIN st.host.asyncInstantiationPromise :
                    st.host.asyncInstantiationPromise[i]
                        = Link("instantiate", n)})

C37_FactoriesInvokedOnce ==
    /\ ~hostServiceProvider.prepared
    /\ hostServiceProvider.asyncInstantiationPromise = << >>
    => \A n \in NamesOf({"singleton"}) :
           InvokedAtOnce(Prepared, n) + InvokedLater(Prepared, n) = 1

(***************************************************************************)
(* C38: when prepare() or createScope() of the eager container             *)
(* instantiates several services in one batch, their factories are invoked *)
(* in the order in which the services were registered.                     *)
(***************************************************************************)
C38_BatchInRegistrationOrder ==
    op.name \in {"prepare", "createScope"}
        => \A i, j \in DOMAIN calls :
               i < j => RegistrationIndex(calls[i].name)
                            <= RegistrationIndex(calls[j].name)

(***************************************************************************)
(* C39: dispose() on a host or on a scope never invokes a factory.  A      *)
(* singleton or scoped service that was never resolved is not instantiated *)
(* in order to be torn down and none of its hooks runs, and no transient   *)
(* factory runs during disposal: a disposal makes no factory call and no   *)
(* instance, and every hook it invokes is a hook of an instance that a     *)
(* singleton or scoped reference held before.                              *)
(***************************************************************************)
\* The disposal that left st invoked no factory and made no instance.
NoFactoryRan(st) ==
    /\ st.calls = << >>
    /\ \A k \in DOMAIN cells : st.cells[k].made = cells[k].made

\* The hooks the disposal invoked are those of instances held before.
OnlyResolvedTornDown(st) ==
    \A i \in DOMAIN st.hooks :
        /\ ~IsTransient(st.hooks[i].key)
        /\ cells[st.hooks[i].key].inst > 0

DisposalInstantiatesNothing(st) ==
    NoFactoryRan(st) /\ OnlyResolvedTornDown(st)

C39_DisposeInvokesNoFactory ==
    /\ \A s \in DOMAIN scopes :
          DisposalInstantiatesNothing(ScopeDisposeWrapper(Heap, s))
    /\ DisposalInstantiatesNothing(HostDispose(Heap))
    /\ DisposalInstantiatesNothing(DisposeSingletons(Heap))

\* host.dispose(), the only disposal so far, has run over the singleton s1
\* and the transient t1, neither of which was ever resolved: it read the
\* hook members of s1's reference, no instance was made and no hook ran.
C39_Witness ==
    /\ disposeCalled = {Host}
    /\ hostReferences["s1"] = NoRef
    /\ cells[<<Host, "s1">>].syncDisposed
    /\ cells[<<Host, "s1">>].asyncDisposed
    /\ cells[<<Host, "s1">>].made = 0
    /\ cells[<<Host, "s1">>].syncRuns = 0
    /\ cells[<<Host, "s1">>].asyncRuns = 0
    /\ cells[<<Host, "t1">>].made = 0

====
